---------------------------- MODULE Spec2Model ----------------------------
(***************************************************************************)
(* Model of the Redmine event source of cigale (src/events/redmine.rs):    *)
(* the date/time parsers, the locale table, the activity page parser, the  *)
(* login sequence and the paginator behind Redmine::get_events; and of the  *)
(* title bar widget (src/widgets/wintitlebar.rs).                          *)
(*                                                                         *)
(* Text is modelled as a sequence of characters; a character is a          *)
(* one-character string, or the token "Uxxxx" for a non-ASCII code point.  *)
(***************************************************************************)
EXTENDS Integers, Sequences, FiniteSets, TLC

VARIABLES
  today,      \* Local::today(): the wall-clock local date
  tzGaps,     \* dates whose local midnight is not a single instant in the timezone
  fnArgs,     \* arguments of the parser call under test (parser specifications)
  fnResult,   \* its result
  cache,      \* the cache collaborator's content for (Redmine, config_name)
  server,     \* the pages the server has served so far, by href
  pc,         \* per call: position in get_events
  day,        \* per call: the target day
  client,     \* per call: client_opt, the session held by the call
  html,       \* per call: activity_html, the page about to be parsed
  ret,        \* per call: the caller init_client returns to
  newUrl,     \* per call: new_url, the previous-page URL to fetch
  userId,     \* per call: user_id resolved by init_client
  login,      \* per call: the client and token init_client holds meanwhile
  result,     \* per call: the value get_events returned
  log,        \* per call: the effects performed, in order
  self,       \* title bar: the WinTitleBar widget, its model and its view
  stacks,     \* title bar: the gtk::Stack objects, by name
  stream,     \* title bar: the messages emitted to the widget, not yet handled
  dialog,     \* title bar: what became of the dialog that was run last
  panic       \* title bar: the unwrap that failed in update, if one did

redmineVars == <<today, tzGaps, fnArgs, fnResult, cache, server, pc, day, client,
                 html, ret, newUrl, userId, login, result, log>>

titleBarVars == <<self, stacks, stream, dialog, panic>>

vars == <<today, tzGaps, fnArgs, fnResult, cache, server, pc, day, client,
          html, ret, newUrl, userId, login, result, log,
          self, stacks, stream, dialog, panic>>

-----------------------------------------------------------------------------
(* Result<T>: Ok(v) or Err(e).                                             *)
Ok(v) == [ok |-> TRUE, val |-> v]
Err(e) == [ok |-> FALSE, err |-> e]
\* an error whose message is format!(e, arg)
ErrWith(e, arg) == [ok |-> FALSE, err |-> e, arg |-> arg]

None == [some |-> FALSE]
Some(v) == [some |-> TRUE, val |-> v]

-----------------------------------------------------------------------------
(* Characters.                                                             *)
DigitChar == <<"0", "1", "2", "3", "4", "5", "6", "7", "8", "9">>

IsAsciiDigit(c) == \E i \in DOMAIN DigitChar : DigitChar[i] = c

DigitVal(c) == (CHOOSE i \in DOMAIN DigitChar : DigitChar[i] = c) - 1

\* \d of the regex crate is Unicode-aware: it also matches non-ASCII decimal digits
IsUnicodeDigit(c) == IsAsciiDigit(c) \/ c \in {"U0660", "U0662", "U0663"}

AsciiUpperChars ==
  <<"A", "B", "C", "D", "E", "F", "G", "H", "I", "J", "K", "L", "M",
    "N", "O", "P", "Q", "R", "S", "T", "U", "V", "W", "X", "Y", "Z">>
AsciiLowerChars ==
  <<"a", "b", "c", "d", "e", "f", "g", "h", "i", "j", "k", "l", "m",
    "n", "o", "p", "q", "r", "s", "t", "u", "v", "w", "x", "y", "z">>

NonAsciiUpperChars == <<"U00C4", "U00D4", "U00DC", "U0102", "U0160", "U0389", "U0391", "U0395", "U039C", "U03A1", "U03A3", "U0406", "U0410", "U0413", "U0414", "U0415", "U041D", "U041E", "U0420", "U0421", "U042C", "U042F", "U04E8">>
NonAsciiLowerChars == <<"U00E4", "U00F4", "U00FC", "U0103", "U0161", "U03AE", "U03B1", "U03B5", "U03BC", "U03C1", "U03C3", "U0456", "U0430", "U0433", "U0434", "U0435", "U043D", "U043E", "U0440", "U0441", "U044C", "U044F", "U04E9">>


UpperChars == AsciiUpperChars \o NonAsciiUpperChars
LowerChars == AsciiLowerChars \o NonAsciiLowerChars

\* char::to_lowercase, on the letters that occur in the model's texts
LowerChar(c) ==
  IF \E i \in DOMAIN UpperChars : UpperChars[i] = c
  THEN LowerChars[CHOOSE i \in DOMAIN UpperChars : UpperChars[i] = c]
  ELSE c

\* str::to_lowercase
to_lowercase(s) == [i \in 1..Len(s) |-> LowerChar(s[i])]

\* str::contains(ch)
contains(s, ch) == \E i \in 1..Len(s) : s[i] = ch

\* str::trim_left: drop the leading whitespace
RECURSIVE trim_left(_)
trim_left(s) ==
  IF s # <<>> /\ Head(s) = " " THEN trim_left(Tail(s)) ELSE s

\* case-insensitive prefix test used by chrono's name scanners
StartsWithNoCase(s, prefix) ==
  /\ Len(s) >= Len(prefix)
  /\ \A i \in 1..Len(prefix) : LowerChar(s[i]) = LowerChar(prefix[i])

Drop(s, n) == SubSeq(s, n + 1, Len(s))

-----------------------------------------------------------------------------
(* Calendar: NaiveDate and NaiveTime values.                               *)
NaiveDate(y, m, d) == [y |-> y, m |-> m, d |-> d]
NaiveTime(h, m) == [h |-> h, m |-> m, s |-> 0]

IsLeap(y) == (y % 4 = 0 /\ y % 100 # 0) \/ y % 400 = 0

DaysInMonth(y, m) ==
  IF m = 2 THEN (IF IsLeap(y) THEN 29 ELSE 28)
  ELSE IF m \in {4, 6, 9, 11} THEN 30 ELSE 31

\* NaiveDate::from_ymd_opt succeeds
ValidYmd(y, m, d) == m \in 1..12 /\ d >= 1 /\ d <= DaysInMonth(y, m)

\* the order of Date<Local> (cur_date < day)
DateLt(a, b) ==
  \/ a.y < b.y
  \/ a.y = b.y /\ a.m < b.m
  \/ a.y = b.y /\ a.m = b.m /\ a.d < b.d

MonthNames ==
  << <<"J","a","n","u","a","r","y">>, <<"F","e","b","r","u","a","r","y">>,
     <<"M","a","r","c","h">>, <<"A","p","r","i","l">>, <<"M","a","y">>,
     <<"J","u","n","e">>, <<"J","u","l","y">>, <<"A","u","g","u","s","t">>,
     <<"S","e","p","t","e","m","b","e","r">>, <<"O","c","t","o","b","e","r">>,
     <<"N","o","v","e","m","b","e","r">>, <<"D","e","c","e","m","b","e","r">> >>

-----------------------------------------------------------------------------
(* chrono::format::parse, for the items the source's patterns use.         *)

\* the fields of chrono's Parsed; -1 is an unset field
NoField == 0 - 1
ParsedNew ==
  [year |-> NoField, month |-> NoField, day |-> NoField,
   hour_div_12 |-> NoField, hour_mod_12 |-> NoField, minute |-> NoField]

\* scan::number: how many of the first max characters are leading ASCII digits
RECURSIVE CountDigits(_, _)
CountDigits(s, max) ==
  IF max = 0 \/ s = <<>> \/ ~IsAsciiDigit(Head(s)) THEN 0
  ELSE 1 + CountDigits(Tail(s), max - 1)

RECURSIVE DigitsValue(_, _)
DigitsValue(s, n) ==
  IF n = 0 THEN 0 ELSE DigitsValue(s, n - 1) * 10 + DigitVal(s[n])

\* scan::number(s, 1, max): between 1 and max digits, n of them found
ScanDigits(s, n) ==
  IF s = <<>> THEN Err("TooShort")
  ELSE IF n = 0 THEN Err("Invalid")
  ELSE Ok([v |-> DigitsValue(s, n), s |-> Drop(s, n)])

ScanNumber(s, max) == ScanDigits(s, CountDigits(s, max))

Signed(sign, r) ==
  IF r.ok /\ sign = "-" THEN Ok([v |-> 0 - r.val.v, s |-> r.val.s]) ELSE r

\* a numeric item on input without leading whitespace: only %Y takes a sign,
\* and a signed year is not limited to four digits
ScanTrimmed(s, width, signed) ==
  IF signed /\ s # <<>> /\ Head(s) \in {"-", "+"}
  THEN Signed(Head(s), ScanNumber(Tail(s), Len(s)))
  ELSE ScanNumber(s, width)

\* a numeric item: leading whitespace is skipped
ScanNumeric(s, width, signed) == ScanTrimmed(trim_left(s), width, signed)

\* scan::short_or_long_month0: the three-letter name, then the rest of the long
\* name when it follows; case-insensitive
MonthsMatching(s) ==
  {k \in 1..12 : StartsWithNoCase(s, SubSeq(MonthNames[k], 1, 3))}

LongMonth(k, after, suffix) ==
  IF StartsWithNoCase(after, suffix)
  THEN Ok([v |-> k, s |-> Drop(after, Len(suffix))])
  ELSE Ok([v |-> k, s |-> after])

ShortMonth(k, s) == LongMonth(k, Drop(s, 3), Drop(MonthNames[k], 3))

ScanMonthName(s) ==
  IF Len(s) < 3 THEN Err("TooShort")
  ELSE IF MonthsMatching(s) = {} THEN Err("Invalid")
  ELSE ShortMonth(CHOOSE k \in MonthsMatching(s) : TRUE, s)

\* Parsed::set_year, set_month, set_day, set_minute: the scanned number r stored
\* in one field of p
SetField(r, p, field) ==
  IF r.ok THEN Ok([s |-> r.val.s, p |-> [p EXCEPT ![field] = r.val.v]]) ELSE r

\* Parsed::set_hour
SetHour(r, p) ==
  IF r.ok
  THEN Ok([s |-> r.val.s,
           p |-> [p EXCEPT !.hour_div_12 = r.val.v \div 12,
                           !.hour_mod_12 = r.val.v % 12]])
  ELSE r

\* Parsed::set_hour12: 1 to 12 only
SetHour12(r, p) ==
  IF ~r.ok THEN r
  ELSE IF r.val.v < 1 \/ r.val.v > 12 THEN Err("OutOfRange")
  ELSE Ok([s |-> r.val.s, p |-> [p EXCEPT !.hour_mod_12 = r.val.v % 12]])

\* %p: AM or PM in any case; Parsed::set_ampm
ScanAmPm(s, p) ==
  IF Len(s) < 2 THEN Err("TooShort")
  ELSE IF StartsWithNoCase(s, <<"a", "m">>)
    THEN Ok([s |-> Drop(s, 2), p |-> [p EXCEPT !.hour_div_12 = 0]])
  ELSE IF StartsWithNoCase(s, <<"p", "m">>)
    THEN Ok([s |-> Drop(s, 2), p |-> [p EXCEPT !.hour_div_12 = 1]])
  ELSE Err("Invalid")

\* one % item applied to the remaining input s with the fields p parsed so far
ParseItem(spec, s, p) ==
  CASE spec = "Y" -> SetField(ScanNumeric(s, 4, TRUE), p, "year")
    [] spec = "m" -> SetField(ScanNumeric(s, 2, FALSE), p, "month")
    [] spec \in {"d", "e"} -> SetField(ScanNumeric(s, 2, FALSE), p, "day")
    [] spec = "B" -> SetField(ScanMonthName(s), p, "month")
    [] spec = "H" -> SetHour(ScanNumeric(s, 2, FALSE), p)
    [] spec = "I" -> SetHour12(ScanNumeric(s, 2, FALSE), p)
    [] spec = "M" -> SetField(ScanNumeric(s, 2, FALSE), p, "minute")
    [] spec = "p" -> ScanAmPm(s, p)
    [] OTHER -> Err("BadFormat")

\* format::parse over a strftime pattern: % items, whitespace (matches any run
\* of whitespace, also none) and literal characters; input left over is an error
RECURSIVE ParseFmt(_, _, _)
ParseRest(fmt, r) == IF r.ok THEN ParseFmt(fmt, r.val.s, r.val.p) ELSE r

ParseFmt(fmt, s, p) ==
  IF fmt = <<>> THEN (IF s = <<>> THEN Ok(p) ELSE Err("TooLong"))
  ELSE IF Head(fmt) = "%" THEN
    IF Len(fmt) < 2 THEN Err("BadFormat")
    ELSE ParseRest(Drop(fmt, 2), ParseItem(fmt[2], s, p))
  ELSE IF Head(fmt) = " " THEN ParseFmt(Tail(fmt), trim_left(s), p)
  ELSE IF s = <<>> THEN Err("TooShort")
  ELSE IF Head(s) # Head(fmt) THEN Err("Invalid")
  ELSE ParseFmt(Tail(fmt), Tail(s), p)

\* Parsed::to_naive_time
to_naive_time(p) ==
  IF p.hour_div_12 = NoField \/ p.hour_mod_12 = NoField \/ p.minute = NoField
    THEN Err("NotEnough")
  ELSE IF p.hour_div_12 > 1 \/ p.minute > 59 THEN Err("OutOfRange")
  ELSE Ok(NaiveTime(p.hour_div_12 * 12 + p.hour_mod_12, p.minute))

\* Parsed::to_naive_date
to_naive_date(p) ==
  IF p.year = NoField \/ p.month = NoField \/ p.day = NoField THEN Err("NotEnough")
  ELSE IF ~ValidYmd(p.year, p.month, p.day) THEN Err("OutOfRange")
  ELSE Ok(NaiveDate(p.year, p.month, p.day))

\* the ? operator: an error is passed on as it is
AndThenTime(r) == IF r.ok THEN to_naive_time(r.val) ELSE r
AndThenDate(r) == IF r.ok THEN to_naive_date(r.val) ELSE r

\* NaiveTime::parse_from_str and NaiveDate::parse_from_str
NaiveTime_parse_from_str(s, fmt) == AndThenTime(ParseFmt(fmt, s, ParsedNew))
NaiveDate_parse_from_str(s, fmt) == AndThenDate(ParseFmt(fmt, s, ParsedNew))

FmtHM == <<"%", "H", ":", "%", "M">>
FmtIMp == <<"%", "I", ":", "%", "M", " ", "%", "p">>
FmtIso == <<"%", "Y", "-", "%", "m", "-", "%", "d">>

-----------------------------------------------------------------------------
(* Locale table.                                                           *)
LocaleInfo_new(date_format, today_translation) ==
  [date_format |-> date_format, today_translation |-> today_translation]

\* the (tag, LocaleInfo) pairs of the vec! in redmine_locales, in source order
LocaleEntries ==
  << <<"lv", LocaleInfo_new(<<"%", "d", ".", "%", "m", ".", "%", "Y">>, <<"U0161", "o", "d", "i", "e", "n">>)>>,
     <<"th", LocaleInfo_new(<<"%", "Y", "-", "%", "m", "-", "%", "d">>, <<"U0E27", "U0E31", "U0E19", "U0E19", "U0E35", "U0E49">>)>>,
     <<"zh", LocaleInfo_new(<<"%", "Y", "-", "%", "m", "-", "%", "d">>, <<"U4ECA", "U5929">>)>>,
     <<"da", LocaleInfo_new(<<"%", "d", ".", "%", "m", ".", "%", "Y">>, <<"i", " ", "d", "a", "g">>)>>,
     <<"pt", LocaleInfo_new(<<"%", "d", "/", "%", "m", "/", "%", "Y">>, <<"h", "o", "j", "e">>)>>,
     <<"ja", LocaleInfo_new(<<"%", "Y", "/", "%", "m", "/", "%", "d">>, <<"U4ECA", "U65E5">>)>>,
     <<"pl", LocaleInfo_new(<<"%", "Y", "-", "%", "m", "-", "%", "d">>, <<"d", "z", "i", "s", "i", "a", "j">>)>>,
     <<"lt", LocaleInfo_new(<<"%", "m", "/", "%", "d", "/", "%", "Y">>, <<"U0161", "i", "a", "n", "d", "i", "e", "n">>)>>,
     <<"fa", LocaleInfo_new(<<"%", "Y", "/", "%", "m", "/", "%", "d">>, <<"U0627", "U0645", "U0631", "U0648", "U0632">>)>>,
     <<"gl", LocaleInfo_new(<<"%", "e", "/", "%", "m", "/", "%", "Y">>, <<"h", "o", "x", "e">>)>>,
     <<"uk", LocaleInfo_new(<<"%", "Y", "-", "%", "m", "-", "%", "d">>, <<"U0441", "U044C", "U043E", "U0433", "U043E", "U0434", "U043D", "U0456">>)>>,
     <<"vi", LocaleInfo_new(<<"%", "d", "-", "%", "m", "-", "%", "Y">>, <<"h", "U00F4", "m", " ", "n", "a", "y">>)>>,
     <<"mn", LocaleInfo_new(<<"%", "Y", "/", "%", "m", "/", "%", "d">>, <<"U04E9", "U043D", "U04E9", "U04E9", "U0434", "U04E9", "U0440">>)>>,
     <<"cs", LocaleInfo_new(<<"%", "Y", "-", "%", "m", "-", "%", "d">>, <<"d", "n", "e", "s">>)>>,
     <<"en-GB", LocaleInfo_new(<<"%", "d", "/", "%", "m", "/", "%", "Y">>, <<"t", "o", "d", "a", "y">>)>>,
     <<"fr", LocaleInfo_new(<<"%", "d", "/", "%", "m", "/", "%", "Y">>, <<"a", "u", "j", "o", "u", "r", "d", "'", "h", "u", "i">>)>>,
     <<"sr", LocaleInfo_new(<<"%", "d", ".", "%", "m", ".", "%", "Y", ".">>, <<"U0434", "U0430", "U043D", "U0430", "U0441">>)>>,
     <<"fi", LocaleInfo_new(<<"%", "e", ".", " ", "%", "B", "t", "a", " ", "%", "Y">>, <<"t", "U00E4", "n", "U00E4", "U00E4", "n">>)>>,
     <<"no", LocaleInfo_new(<<"%", "d", ".", "%", "m", ".", "%", "Y">>, <<"i", "d", "a", "g">>)>>,
     <<"mk", LocaleInfo_new(<<"%", "d", "/", "%", "m", "/", "%", "Y">>, <<"U0434", "U0435", "U043D", "U0435", "U0441">>)>>,
     <<"hu", LocaleInfo_new(<<"%", "Y", ".", "%", "m", ".", "%", "d", ".">>, <<"m", "a">>)>>,
     <<"ro", LocaleInfo_new(<<"%", "d", "-", "%", "m", "-", "%", "Y">>, <<"a", "s", "t", "U0103", "z", "i">>)>>,
     <<"it", LocaleInfo_new(<<"%", "d", "-", "%", "m", "-", "%", "Y">>, <<"o", "g", "g", "i">>)>>,
     <<"he", LocaleInfo_new(<<"%", "d", "/", "%", "m", "/", "%", "Y">>, <<"U05D4", "U05D9", "U05D5", "U05DD">>)>>,
     <<"es", LocaleInfo_new(<<"%", "Y", "-", "%", "m", "-", "%", "d">>, <<"h", "o", "y">>)>>,
     <<"en", LocaleInfo_new(<<"%", "m", "/", "%", "d", "/", "%", "Y">>, <<"t", "o", "d", "a", "y">>)>>,
     <<"sq", LocaleInfo_new(<<"%", "m", "/", "%", "d", "/", "%", "Y">>, <<"s", "o", "t">>)>>,
     <<"eu", LocaleInfo_new(<<"%", "Y", "/", "%", "m", "/", "%", "d">>, <<"g", "a", "u", "r">>)>>,
     <<"id", LocaleInfo_new(<<"%", "d", "-", "%", "m", "-", "%", "Y">>, <<"h", "a", "r", "i", " ", "i", "n", "i">>)>>,
     <<"de", LocaleInfo_new(<<"%", "d", ".", "%", "m", ".", "%", "Y">>, <<"h", "e", "u", "t", "e">>)>>,
     <<"bg", LocaleInfo_new(<<"%", "d", "-", "%", "m", "-", "%", "Y">>, <<"U0434", "U043D", "U0435", "U0441">>)>>,
     <<"sv", LocaleInfo_new(<<"%", "Y", "-", "%", "m", "-", "%", "d">>, <<"i", "d", "a", "g">>)>>,
     <<"sk", LocaleInfo_new(<<"%", "Y", "-", "%", "m", "-", "%", "d">>, <<"d", "n", "e", "s">>)>>,
     <<"ko", LocaleInfo_new(<<"%", "Y", "/", "%", "m", "/", "%", "d">>, <<"UC624", "UB298">>)>>,
     <<"et", LocaleInfo_new(<<"%", "d", ".", "%", "m", ".", "%", "Y">>, <<"t", "U00E4", "n", "a">>)>>,
     <<"hr", LocaleInfo_new(<<"%", "m", "/", "%", "d", "/", "%", "Y">>, <<"d", "a", "n", "a", "s">>)>>,
     <<"el", LocaleInfo_new(<<"%", "m", "/", "%", "d", "/", "%", "Y">>, <<"U03C3", "U03AE", "U03BC", "U03B5", "U03C1", "U03B1">>)>>,
     <<"zh-TW", LocaleInfo_new(<<"%", "Y", "-", "%", "m", "-", "%", "d">>, <<"U4ECA", "U5929">>)>>,
     <<"sr-YU", LocaleInfo_new(<<"%", "d", ".", "%", "m", ".", "%", "Y", ".">>, <<"d", "a", "n", "a", "s">>)>>,
     <<"bs", LocaleInfo_new(<<"%", "d", ".", "%", "m", ".", "%", "Y">>, <<"d", "a", "n", "a", "s">>)>>,
     <<"tr", LocaleInfo_new(<<"%", "d", ".", "%", "m", ".", "%", "Y">>, <<"b", "u", "g", "U00FC", "n">>)>>,
     <<"ru", LocaleInfo_new(<<"%", "d", ".", "%", "m", ".", "%", "Y">>, <<"U0441", "U0435", "U0433", "U043E", "U0434", "U043D", "U044F">>)>>,
     <<"es-PA", LocaleInfo_new(<<"%", "Y", "-", "%", "m", "-", "%", "d">>, <<"h", "o", "y">>)>>,
     <<"ar", LocaleInfo_new(<<"%", "m", "/", "%", "d", "/", "%", "Y">>, <<"U0627", "U0644", "U064A", "U0648", "U0645">>)>>,
     <<"sl", LocaleInfo_new(<<"%", "d", ".", "%", "m", ".", "%", "Y">>, <<"d", "a", "n", "e", "s">>)>>,
     <<"az", LocaleInfo_new(<<"%", "d", ".", "%", "m", ".", "%", "Y">>, <<"b", "u", " ", "g", "U00FC", "n">>)>>,
     <<"ca", LocaleInfo_new(<<"%", "d", "-", "%", "m", "-", "%", "Y">>, <<"a", "v", "u", "i">>)>>,
     <<"pt-BR", LocaleInfo_new(<<"%", "d", "/", "%", "m", "/", "%", "Y">>, <<"h", "o", "j", "e">>)>>,
     <<"nl", LocaleInfo_new(<<"%", "d", "-", "%", "m", "-", "%", "Y">>, <<"v", "a", "n", "d", "a", "a", "g">>)>> >>

\* .into_iter().collect(): the HashMap from tag to LocaleInfo
redmine_locales ==
  [t \in {LocaleEntries[i][1] : i \in DOMAIN LocaleEntries} |->
     LocaleEntries[CHOOSE i \in DOMAIN LocaleEntries : LocaleEntries[i][1] = t][2]]


-----------------------------------------------------------------------------
(* Redmine::parse_date and Redmine::parse_time.                            *)

\* the regex ^\d{4}-\d{2}-\d{2}$
iso_date_format_regex_is_match(s) ==
  /\ Len(s) = 10
  /\ \A i \in {1, 2, 3, 4, 6, 7, 9, 10} : IsUnicodeDigit(s[i])
  /\ s[5] = "-" /\ s[8] = "-"

\* Local.from_local_date(&naive).single(), after the ? on the parsed date
from_local_date_single(naive) ==
  IF ~naive.ok THEN naive
  ELSE IF naive.val \in tzGaps THEN Err("Can't convert to local time")
  ELSE Ok(naive.val)

\* parse_date without the ISO shape: the locale's pattern alone
parse_date_locale_only(locale_info, date_str) ==
  IF to_lowercase(date_str) = locale_info.today_translation THEN Ok(today)
  ELSE from_local_date_single(
         NaiveDate_parse_from_str(date_str, locale_info.date_format))

parse_date(locale_info, date_str) ==
  IF to_lowercase(date_str) = locale_info.today_translation THEN Ok(today)
  ELSE from_local_date_single(
         IF iso_date_format_regex_is_match(date_str)
         THEN NaiveDate_parse_from_str(date_str, FmtIso)
         ELSE NaiveDate_parse_from_str(date_str, locale_info.date_format))

\* parse_time without the 12-hour branch
parse_time_24_only(time_str) == NaiveTime_parse_from_str(time_str, FmtHM)

parse_time(time_str) ==
  IF contains(time_str, " ")
  THEN NaiveTime_parse_from_str(time_str, FmtIMp)
  ELSE NaiveTime_parse_from_str(time_str, FmtHM)

-----------------------------------------------------------------------------
(* Texts the server renders: the inputs of the parsers.                    *)

Fmt2(n) == <<DigitChar[((n \div 10) % 10) + 1], DigitChar[(n % 10) + 1]>>
Fmt4(n) == Fmt2(n \div 100) \o Fmt2(n % 100)

\* a day of month padded with a space, as strftime's %e renders it
FmtE(n) == IF n < 10 THEN <<" ", DigitChar[n + 1]>> ELSE Fmt2(n)

\* strftime: the text of date d under the pattern fmt
RECURSIVE RenderDate(_, _)
RenderDate(fmt, d) ==
  IF fmt = <<>> THEN <<>>
  ELSE IF Head(fmt) = "%" THEN
    (CASE fmt[2] = "Y" -> Fmt4(d.y)
       [] fmt[2] = "m" -> Fmt2(d.m)
       [] fmt[2] = "d" -> Fmt2(d.d)
       [] fmt[2] = "e" -> FmtE(d.d)
       [] fmt[2] = "B" -> MonthNames[d.m]
       [] OTHER -> <<>>) \o RenderDate(Drop(fmt, 2), d)
  ELSE <<Head(fmt)>> \o RenderDate(Tail(fmt), d)

Render24(h, m) == Fmt2(h) \o <<":">> \o Fmt2(m)
Render12(h, m, mer) == Fmt2(h) \o <<":">> \o Fmt2(m) \o <<" ">> \o mer

\* the hour of day of h o'clock AM (pm = 0) or PM (pm = 1)
To24(h, pm) == (h % 12) + 12 * pm

Meridiems == {<<"A", "M">>, <<"P", "M">>, <<"a", "m">>, <<"p", "m">>}
IsPm(mer) == LowerChar(mer[1]) = "p"

Minutes == {0, 30, 59, 60}

\* texts of neither canonical form
OddTimeTexts ==
  { <<>>,
    <<"9", ":", "0", "0">>,
    <<"1", ":", "3", "0", " ", "P", "M">>,
    <<" ", "0", "1", ":", "3", "0", "P", "M">>,
    <<"0", "1", ":", "3", "0", " ", " ", "P", "M">>,
    <<"0", "1", ":", "3", "0", "P", "M">>,
    <<"0", "1", ":", "3", "0", " ", "X", "M">>,
    <<"0", "9", ":", "0", "0", ":", "0", "0">>,
    <<"0", "9", ":", "0", "0", " ">>,
    <<" ", "0", "9", ":", "0", "0">>,
    <<"0", "9", ".", "0", "0">>,
    <<"0", "9", "0", "0">>,
    <<"1", "2", "3", ":", "0", "0">>,
    <<"0", "9", ":", "0", "0", "0">>,
    <<"n", "o", "o", "n">>,
    <<"0", "9", ":">>,
    <<":", "3", "0">> }

TimeTexts ==
  {Render24(h, m) : h \in 0..24, m \in Minutes}
    \cup {Render12(h, m, mer) : h \in 0..13, m \in Minutes, mer \in Meridiems}
    \cup OddTimeTexts

D_2020_03_23 == NaiveDate(2020, 3, 23)

\* the dates the model's texts are rendered from
ModelDates ==
  { NaiveDate(2020, 3, 22), D_2020_03_23, NaiveDate(2020, 3, 24),
    NaiveDate(2020, 3, 29), NaiveDate(2019, 12, 31), NaiveDate(2020, 2, 29),
    NaiveDate(2020, 4, 3) }

\* a date whose local midnight some timezones skip (a DST change at 00:00)
GapDate == NaiveDate(2020, 3, 29)

\* the header text for today, as Redmine capitalises it
Capitalize(s) ==
  [i \in 1..Len(s) |->
     IF i = 1 /\ \E k \in DOMAIN LowerChars : LowerChars[k] = s[1]
     THEN UpperChars[CHOOSE k \in DOMAIN LowerChars : LowerChars[k] = s[1]]
     ELSE s[i]]

GarbageDateTexts ==
  { <<>>,
    <<"y", "e", "s", "t", "e", "r", "d", "a", "y">>,
    <<"2", "0", "2", "0">>,
    <<"2", "0", "2", "0", "-", "1", "3", "-", "4", "5">>,
    <<"2", "0", "2", "0", "-", "0", "2", "-", "3", "0">>,
    <<"U0662", "0", "2", "0", "-", "0", "3", "-", "2", "3">>,
    <<"2", "3", "?", "0", "3", "?", "2", "0", "2", "0">> }

Formats == {redmine_locales[t].date_format : t \in DOMAIN redmine_locales}

DateTexts(tag) ==
  {RenderDate(f, d) : f \in Formats, d \in {D_2020_03_23, NaiveDate(2020, 4, 3)}}
    \cup {RenderDate(redmine_locales[tag].date_format, d) : d \in ModelDates}
    \cup {RenderDate(FmtIso, d) : d \in ModelDates}
    \cup { redmine_locales[tag].today_translation,
           Capitalize(redmine_locales[tag].today_translation),
           <<"T", "O", "D", "A", "Y">> }
    \cup GarbageDateTexts

-----------------------------------------------------------------------------
(* The configuration and the activity page as the scraper's selectors see  *)
(* it.                                                                     *)

\* RedmineConfig of the configuration under config_name
redmine_config ==
  [server_url |-> <<"h", "t", "t", "p", ":", "/", "/", "r">>,
   username |-> <<"u">>,
   password |-> <<"p">>]

\* One event block (a dl following an h3): the elements that the selectors
\* span.time, span.description and "dt.icon a" yield, in document order.
\* A link is its inner HTML and its href attribute, if any.
Block(times, descriptions, links) ==
  [times |-> times, descriptions |-> descriptions, links |-> links]

Link(text, href) == [text |-> text, href |-> href]

\* One day of a page: the h3 header's inner HTML, and the dl that directly
\* follows the header, if any.
Day(header, block) == [header |-> header, block |-> block]

\* A page: the lang attribute of the root element, the days in document order,
\* and the first "li.previous.page a" element (its href attribute, if any).
Page(lang, days, previous) == [lang |-> lang, days |-> days, previous |-> previous]

NoLink == [present |-> FALSE]
PrevLink(href) == [present |-> TRUE, href |-> href]

\* doc.select("div#content div#activity h3"): every day header
SelectDays(page) == [i \in 1..Len(page.days) |-> page.days[i].header]

\* doc.select("div#content div#activity h3 + dl"): every dl that directly
\* follows a header
RECURSIVE SelectDayContents(_)
SelectDayContents(days) ==
  IF days = <<>> THEN <<>>
  ELSE IF Head(days).block.some
    THEN <<Head(days).block.val>> \o SelectDayContents(Tail(days))
    ELSE SelectDayContents(Tail(days))

\* glib::markup_escape_text
EscapeChar(c) ==
  CASE c = "&" -> <<"&", "a", "m", "p", ";">>
    [] c = "<" -> <<"&", "l", "t", ";">>
    [] c = ">" -> <<"&", "g", "t", ";">>
    [] c = "'" -> <<"&", "#", "3", "9", ";">>
    [] c = "\"" -> <<"&", "q", "u", "o", "t", ";">>
    [] OTHER -> <<c>>

RECURSIVE markup_escape_text(_)
markup_escape_text(s) ==
  IF s = <<>> THEN <<>> ELSE EscapeChar(Head(s)) \o markup_escape_text(Tail(s))

BodyOpen == <<"<", "a", " ", "h", "r", "e", "f", "=", "\"">>
BodyMid ==
  <<"\"", ">", "O", "p", "e", "n", " ", "i", "n", " ", "t", "h", "e", " ",
    "b", "r", "o", "w", "s", "e", "r", "<", "/", "a", ">", "\n">>

\* Event::new with the link's href alone in the body, not made absolute
Event_new_relative_link(time, link_elt, description_elt, config) ==
  [source |-> "Redmine",
   icon |-> "FONTAWESOME_TASKS_SVG",
   time |-> time,
   title |-> link_elt.text,
   short_title |-> link_elt.text,
   body |-> [kind |-> "Markup",
             text |-> BodyOpen
                        \o (IF link_elt.href.some THEN link_elt.href.val ELSE <<>>)
                        \o BodyMid \o markup_escape_text(description_elt),
             wrap |-> "WordWrap"],
   extra_data |-> None]

\* Event::new("Redmine", icon, time, title, short title, Markup body, None)
Event_new(time, link_elt, description_elt, config) ==
  [source |-> "Redmine",
   icon |-> "FONTAWESOME_TASKS_SVG",
   time |-> time,
   title |-> link_elt.text,
   short_title |-> link_elt.text,
   body |-> [kind |-> "Markup",
             text |-> BodyOpen \o config.server_url
                        \o (IF link_elt.href.some THEN link_elt.href.val ELSE <<>>)
                        \o BodyMid \o markup_escape_text(description_elt),
             wrap |-> "WordWrap"],
   extra_data |-> None]

\* Redmine::parse_events: the loop, from the i-th time element on, with the
\* events built so far
RECURSIVE parse_events_loop(_, _, _, _)
\* parse_event returning the events built so far when an element is missing
parse_event_partial(config, contents_elt, i, built, time) ==
  IF ~time.ok THEN time
  ELSE IF i > Len(contents_elt.descriptions) \/ i > Len(contents_elt.links)
    THEN Ok(built)
  ELSE Ok(Append(built, Event_new(time.val, contents_elt.links[i],
                                  contents_elt.descriptions[i], config)))

\* parse_event asking for the link before the description
parse_event_link_first(config, contents_elt, i, built, time) ==
  IF ~time.ok THEN time
  ELSE IF i > Len(contents_elt.links) THEN Err("Redmine event: no link?")
  ELSE IF i > Len(contents_elt.descriptions)
    THEN Err("Redmine event: no description?")
  ELSE parse_events_loop(config, contents_elt, i + 1,
         Append(built, Event_new(time.val, contents_elt.links[i],
                                 contents_elt.descriptions[i], config)))

parse_event(config, contents_elt, i, built, time) ==
  IF ~time.ok THEN time
  ELSE IF i > Len(contents_elt.descriptions)
    THEN Err("Redmine event: no description?")
  ELSE IF i > Len(contents_elt.links) THEN Err("Redmine event: no link?")
  ELSE parse_events_loop(config, contents_elt, i + 1,
         Append(built, Event_new(time.val, contents_elt.links[i],
                                 contents_elt.descriptions[i], config)))

parse_events_loop(config, contents_elt, i, built) ==
  IF i > Len(contents_elt.times) THEN Ok(built)
  ELSE parse_event(config, contents_elt, i, built, parse_time(contents_elt.times[i]))

parse_events(config, contents_elt) == parse_events_loop(config, contents_elt, 1, <<>>)

\* ActivityData
ActivityDone(events) == [kind |-> "Done", events |-> events]
ReachedEndOfPage(url) == [kind |-> "ReachedEndOfPage", url |-> url]

\* previous_url taking a missing link or href for an empty href
previous_url_or_empty(config, page) ==
  IF page.previous.present /\ page.previous.href.some
  THEN Some(config.server_url \o page.previous.href.val)
  ELSE Some(config.server_url)

\* previous_url handing out the href as it is
previous_url_relative(config, page) ==
  IF page.previous.present /\ page.previous.href.some
  THEN Some(page.previous.href.val)
  ELSE None

\* the previous paging link of the page, made absolute
previous_url(config, page) ==
  IF page.previous.present /\ page.previous.href.some
  THEN Some(config.server_url \o page.previous.href.val)
  ELSE None

\* .map(ActivityData::Done)
MapDone(events) == IF events.ok THEN Ok(ActivityDone(events.val)) ELSE events

\* Redmine::parse_html: the loop over (it_day, it_contents), at the i-th pair
RECURSIVE parse_html_loop(_, _, _, _, _, _)
\* parse_html_pair reading on past a day earlier than the requested one
parse_html_pair_skip_earlier(config, locale, target, page, it_contents, i, cur_date) ==
  IF ~cur_date.ok THEN cur_date
  ELSE IF cur_date.val = target THEN MapDone(parse_events(config, it_contents[i]))
  ELSE parse_html_loop(config, locale, target, page, it_contents, i + 1)

parse_html_pair(config, locale, target, page, it_contents, i, cur_date) ==
  IF ~cur_date.ok THEN cur_date
  ELSE IF DateLt(cur_date.val, target) THEN Ok(ActivityDone(<<>>))
  ELSE IF cur_date.val = target THEN MapDone(parse_events(config, it_contents[i]))
  ELSE parse_html_loop(config, locale, target, page, it_contents, i + 1)

\* parse_html_loop failing when one stream ends before the other
parse_html_loop_in_step(config, locale, target, page, it_contents, i) ==
  IF i <= Len(page.days) /\ i <= Len(it_contents)
  THEN parse_html_pair(config, locale, target, page, it_contents, i,
                       parse_date(locale, SelectDays(page)[i]))
  ELSE IF Len(page.days) # Len(it_contents)
    THEN Err("Redmine activity: days and contents out of step")
  ELSE Ok(ReachedEndOfPage(previous_url(config, page)))

parse_html_loop(config, locale, target, page, it_contents, i) ==
  IF i <= Len(page.days) /\ i <= Len(it_contents)
  THEN parse_html_pair(config, locale, target, page, it_contents, i,
                       parse_date(locale, SelectDays(page)[i]))
  ELSE Ok(ReachedEndOfPage(previous_url(config, page)))

\* parse_html reading a page of an unknown language as an English one
parse_html_english_by_default(config, locales, target, activity_html) ==
  parse_html_loop(config,
                  IF activity_html.lang.some /\ activity_html.lang.val \in DOMAIN locales
                  THEN locales[activity_html.lang.val] ELSE locales["en"],
                  target, activity_html, SelectDayContents(activity_html.days), 1)

parse_html(config, locales, target, activity_html) ==
  IF ~activity_html.lang.some THEN Err("Can't find the language in the HTML")
  ELSE IF activity_html.lang.val \notin DOMAIN locales
    THEN ErrWith("Unknown locale {}", activity_html.lang.val)
  ELSE parse_html_loop(config, locales[activity_html.lang.val], target,
                       activity_html, SelectDayContents(activity_html.days), 1)

-----------------------------------------------------------------------------
(* The pages a server may serve.                                           *)

MaxEvents == 2        \* most events in one day block
MaxPrevFetches == 2   \* most previous-page fetches followed in one call

TargetDay == D_2020_03_23
DayBefore == NaiveDate(2020, 3, 22)
DayAfter == NaiveDate(2020, 3, 24)

FmtEn == redmine_locales["en"].date_format

IssueNo(i) == <<"1", "2", DigitChar[((i + 2) % 10) + 1]>>

\* the i-th event of a day, as the server knows it
EventHour(i) == IF i % 2 = 1 THEN 8 + i ELSE To24(i \div 2, 1)
EventMinute(i) == IF i % 2 = 1 THEN 0 ELSE 30
EventTimeText(i) ==
  IF i % 2 = 1 THEN Render24(EventHour(i), 0)
  ELSE Render12(i \div 2, 30, <<"P", "M">>)
EventTitle(i) == <<"B", "u", "g", " ", "#">> \o IssueNo(i)
EventHref(i) == <<"/", "i", "s", "s", "u", "e", "s", "/">> \o IssueNo(i)
EventDescription(i) ==
  (IF i % 2 = 1
   THEN <<"F", "i", "x", "e", "d", " ", "b", "u", "g", " ", "#">>
   ELSE <<"a", "<", "b", " ", "&", " ", "\"", "c", "\"", " ", "#">>) \o IssueNo(i)

Times(k) == [i \in 1..k |-> EventTimeText(i)]
Descriptions(k) == [i \in 1..k |-> EventDescription(i)]
Links(k) == [i \in 1..k |-> Link(EventTitle(i), Some(EventHref(i)))]

BadTimeText == <<"9", "h">>

GoodBlock(k) == Block(Times(k), Descriptions(k), Links(k))
BadTimeBlock(k, j) ==
  Block([Times(k) EXCEPT ![j] = BadTimeText], Descriptions(k), Links(k))
ShortDescriptionsBlock(k) == Block(Times(k), Descriptions(k - 1), Links(k))
ShortLinksBlock(k) == Block(Times(k), Descriptions(k), Links(k - 1))
ExtraBlock(k) == Block(Times(k), Descriptions(k + 1), Links(k + 1))
NoHrefBlock == Block(Times(1), Descriptions(1), <<Link(EventTitle(1), None)>>)

GoodBlocks == {GoodBlock(k) : k \in 0..MaxEvents}
DefectiveBlocks ==
  UNION {{BadTimeBlock(k, j) : j \in 1..k} : k \in 1..MaxEvents}
    \cup {ShortDescriptionsBlock(k) : k \in 1..MaxEvents}
    \cup {ShortLinksBlock(k) : k \in 1..MaxEvents}
Blocks ==
  GoodBlocks \cup DefectiveBlocks
    \cup {ExtraBlock(k) : k \in 1..MaxEvents} \cup {NoHrefBlock}

HdrBefore == RenderDate(FmtEn, DayBefore)
HdrTarget == RenderDate(FmtEn, TargetDay)
HdrAfter == RenderDate(FmtEn, DayAfter)
HdrGap == RenderDate(FmtEn, GapDate)
HdrIsoTarget == RenderDate(FmtIso, TargetDay)
HdrToday == <<"T", "o", "d", "a", "y">>
HdrBad == <<"y", "e", "s", "t", "e", "r", "d", "a", "y">>

AnyBlock == Some(GoodBlock(1))

\* the day lists of the pages: the target day with each block, pages of later
\* days only, pages past the target day, headers without a block, bad headers
DayLists ==
  {<<Day(HdrTarget, Some(b))>> : b \in Blocks}
    \cup {<<Day(HdrAfter, AnyBlock), Day(HdrTarget, Some(b))>> :
            b \in {GoodBlock(MaxEvents), ShortLinksBlock(MaxEvents)}}
    \cup { <<>>,
           <<Day(HdrAfter, AnyBlock)>>,
           <<Day(HdrGap, AnyBlock), Day(HdrAfter, AnyBlock)>>,
           <<Day(HdrToday, Some(GoodBlock(MaxEvents)))>>,
           <<Day(HdrIsoTarget, Some(GoodBlock(MaxEvents)))>>,
           <<Day(HdrBefore, AnyBlock)>>,
           <<Day(HdrAfter, AnyBlock), Day(HdrBefore, AnyBlock)>>,
           <<Day(HdrBefore, AnyBlock), Day(HdrBad, AnyBlock)>>,
           <<Day(HdrBefore, AnyBlock), Day(HdrTarget, Some(GoodBlock(MaxEvents)))>>,
           <<Day(HdrTarget, Some(GoodBlock(MaxEvents))), Day(HdrBefore, AnyBlock)>>,
           <<Day(HdrAfter, None)>>,
           <<Day(HdrBefore, None)>>,
           <<Day(HdrAfter, None), Day(HdrTarget, Some(GoodBlock(MaxEvents)))>>,
           <<Day(HdrTarget, None), Day(HdrAfter, Some(GoodBlock(MaxEvents)))>>,
           <<Day(HdrTarget, None), Day(HdrBefore, Some(GoodBlock(MaxEvents)))>>,
           <<Day(HdrBad, AnyBlock)>>,
           <<Day(HdrAfter, AnyBlock), Day(HdrBad, AnyBlock)>>,
           <<Day(HdrBad, None)>> }

PrevHref(n) ==
  <<"/", "a", "c", "t", "i", "v", "i", "t", "y", "?", "f", "r", "o", "m", "=">>
    \o <<DigitChar[n + 1]>>
PrevHrefs == {PrevHref(1), PrevHref(2)}

Previous == {NoLink, PrevLink(None)} \cup {PrevLink(Some(h)) : h \in PrevHrefs}

\* a page of the current day, with no event: a later day when the call asks for
\* the day before, the target day when it asks for the current day
TodayPage(previous) == Page(Some("en"), <<Day(HdrToday, Some(GoodBlock(0)))>>, previous)

Pages ==
  {Page(Some("en"), ds, pv) : ds \in DayLists, pv \in Previous}
    \cup {Page(l, <<Day(HdrTarget, Some(GoodBlock(1)))>>, NoLink) : l \in {None, Some("xx")}}
    \cup {TodayPage(pv) : pv \in Previous}
    \cup {Page(l, <<Day(h, AnyBlock)>>, PrevLink(Some(p))) :
            l \in {None, Some("xx")}, h \in {HdrBad, HdrBefore}, p \in PrevHrefs}
    \cup {Page(Some("sl"),
               <<Day(RenderDate(redmine_locales["sl"].date_format, TargetDay),
                     Some(GoodBlock(1)))>>, NoLink)}

-----------------------------------------------------------------------------
(* The server and the login pages.                                         *)

\* the root page: the input[name=authenticity_token] element, if any, and its
\* value attribute, if any
RootPage(input, value) == [input |-> input, value |-> value]
RootPages ==
  { RootPage(FALSE, None), RootPage(TRUE, None), RootPage(TRUE, Some(<<"t", "0", "k">>)) }

\* the page after login: the a.user.active element, if any, and its href
UserPage(link, href) == [link |-> link, href |-> href]
UsersPrefix == <<"/", "u", "s", "e", "r", "s", "/">>
UserPages ==
  { UserPage(FALSE, None), UserPage(TRUE, None),
    UserPage(TRUE, Some(UsersPrefix \o <<"5">>)),
    UserPage(TRUE, Some(<<"/", "p", "e", "o", "p", "l", "e", "/", "5">>)) }

\* str::replace(pat, ""): every occurrence of pat removed
RECURSIVE RemoveAll(_, _)
RemoveAll(s, pat) ==
  IF s = <<>> THEN <<>>
  ELSE IF Len(s) >= Len(pat) /\ SubSeq(s, 1, Len(pat)) = pat
    THEN RemoveAll(Drop(s, Len(pat)), pat)
    ELSE <<Head(s)>> \o RemoveAll(Tail(s), pat)

LoginUrl(config) == config.server_url \o <<"/", "l", "o", "g", "i", "n">>
ActivityUrl(config, user_id) ==
  config.server_url
    \o <<"/", "a", "c", "t", "i", "v", "i", "t", "y", "?", "u", "s", "e", "r", "_", "i", "d", "=">>
    \o user_id

\* the URLs under which the server serves activity pages
FeedUrls ==
  {ActivityUrl(redmine_config, <<"5">>)}
    \cup {redmine_config.server_url \o h : h \in PrevHrefs}

-----------------------------------------------------------------------------
(* Redmine::get_events, one call c at a time.                              *)

CallIds == {"c1", "c2"}
Sequential == {"c1"}

TargetDays == {TargetDay}

Returned(c) == pc[c] = "returned"
Logged(c, entry) == log' = [log EXCEPT ![c] = Append(@, entry)]
LoggedAll(c, entries) == log' = [log EXCEPT ![c] = @ \o entries]

Return(c, value) ==
  /\ pc' = [pc EXCEPT ![c] = "returned"]
  /\ result' = [result EXCEPT ![c] = Some(value)]

\* the answer of the server to GET url: an error status for a URL it does not
\* serve, else the page under that URL (decided when first served)
ServerGet(url, page) ==
  /\ url \in FeedUrls
  /\ IF url \in DOMAIN server
     THEN page = server[url] /\ UNCHANGED server
     ELSE page \in Pages /\ server' = server @@ (url :> page)

\* get_events that looks the cache up and logs in all the same
GetEventsIgnoringCache(c) ==
  /\ pc[c] = "idle"
  /\ \E d \in TargetDays :
       /\ day' = [day EXCEPT ![c] = Some(d)]
       /\ \/ /\ Logged(c, [op |-> "get_cached_contents", status |-> "error"])
             /\ Return(c, Err("cache read failed"))
             /\ UNCHANGED ret
          \/ /\ Logged(c, [op |-> "get_cached_contents",
                           status |-> IF cache.some THEN "hit" ELSE "miss"])
             /\ pc' = [pc EXCEPT ![c] = "init_client"]
             /\ ret' = [ret EXCEPT ![c] = "fetch_activity_html"]
             /\ UNCHANGED result
  /\ UNCHANGED <<titleBarVars, today, tzGaps, fnArgs, fnResult, cache, server, login, newUrl,
                 userId, client, html>>

\* lines 405-415: the cache lookup; a hit hands the cached page to the paginator
\* with no client, a miss enters fetch_activity_html
GetEvents(c) ==
  /\ pc[c] = "idle"
  /\ \E d \in TargetDays :
       /\ day' = [day EXCEPT ![c] = Some(d)]
       /\ \/ /\ Logged(c, [op |-> "get_cached_contents", status |-> "error"])
             /\ Return(c, Err("cache read failed"))
             /\ UNCHANGED <<client, html, ret>>
          \/ /\ cache.some
             /\ Logged(c, [op |-> "get_cached_contents", status |-> "hit"])
             /\ client' = [client EXCEPT ![c] = None]
             /\ html' = [html EXCEPT ![c] = Some(cache.val)]
             /\ pc' = [pc EXCEPT ![c] = "paging"]
             /\ UNCHANGED <<result, ret>>
          \/ /\ Logged(c, [op |-> "get_cached_contents", status |-> "miss"])
             /\ pc' = [pc EXCEPT ![c] = "init_client"]
             /\ ret' = [ret EXCEPT ![c] = "fetch_activity_html"]
             /\ UNCHANGED <<client, html, result>>
  /\ UNCHANGED <<titleBarVars, today, tzGaps, fnArgs, fnResult, cache, server, login, newUrl, userId>>

\* how many clients call c has built
ClientsBuilt(c) == Len(SelectSeq(log[c], LAMBDA e : e.op = "new_client"))

\* lines 182-198: build the client, GET the root page, take the token
InitClientGetRoot(c) ==
  /\ pc[c] = "init_client"
  /\ LET sid == <<c, ClientsBuilt(c) + 1>>
         built == [op |-> "new_client", session |-> sid]
         get(st, page) == [op |-> "GET", req |-> "root",
                           url |-> redmine_config.server_url,
                           session |-> sid, status |-> st, page |-> page]
     IN \/ /\ LoggedAll(c, <<built, get("error", None)>>)
           /\ Return(c, Err("request failed"))
           /\ UNCHANGED login
        \/ \E root \in RootPages :
             /\ LoggedAll(c, <<built, get("ok", Some(root))>>)
             /\ IF root.input /\ root.value.some
                THEN /\ login' = [login EXCEPT ![c] =
                                    Some([client |-> sid, auth_token |-> root.value.val])]
                     /\ pc' = [pc EXCEPT ![c] = "login_post"]
                ELSE \* Option::unwrap on None
                     /\ pc' = [pc EXCEPT ![c] = "panicked"]
                     /\ UNCHANGED login
             /\ UNCHANGED result
  /\ UNCHANGED <<titleBarVars, today, tzGaps, fnArgs, fnResult, cache, server, day, client, html,
                 ret, newUrl, userId>>

\* the user id of the page after login (lines 213-222)
user_id_of(page) ==
  IF ~page.link THEN Err("Failed getting the user id#1")
  ELSE IF ~page.href.some THEN Err("Failed getting the user id#2")
  ELSE Ok(RemoveAll(page.href.val, UsersPrefix))

\* InitClientPostLogin going on as user 5 whatever the answer to the POST
InitClientPostLoginUnchecked(c) ==
  /\ pc[c] = "login_post"
  /\ Logged(c, [op |-> "POST", req |-> "login", url |-> LoginUrl(redmine_config),
                session |-> login[c].val.client, status |-> "error", page |-> None,
                form |-> [username |-> redmine_config.username,
                          password |-> redmine_config.password,
                          back_url |-> redmine_config.server_url,
                          authenticity_token |-> login[c].val.auth_token]])
  /\ userId' = [userId EXCEPT ![c] = Some(<<"5">>)]
  /\ IF ret[c] = "fetch_activity_html"
     THEN /\ pc' = [pc EXCEPT ![c] = "fetch_activity"]
          /\ UNCHANGED client
     ELSE /\ pc' = [pc EXCEPT ![c] = "fetch_previous"]
          /\ client' = [client EXCEPT ![c] = Some(login[c].val.client)]
  /\ UNCHANGED <<titleBarVars, today, tzGaps, fnArgs, fnResult, cache, server, day, html, ret,
                 newUrl, login, result>>

\* lines 200-223: POST the login form, resolve the user id, return to the caller
InitClientPostLogin(c) ==
  /\ pc[c] = "login_post"
  /\ LET sid == login[c].val.client
         post(st, page) ==
                     [op |-> "POST", req |-> "login", url |-> LoginUrl(redmine_config),
                      session |-> sid, status |-> st, page |-> page,
                      form |-> [username |-> redmine_config.username,
                                password |-> redmine_config.password,
                                back_url |-> redmine_config.server_url,
                                authenticity_token |-> login[c].val.auth_token]]
     IN \/ /\ Logged(c, post("error", None))
           /\ Return(c, Err("request failed"))
           /\ UNCHANGED <<client, userId>>
        \/ \E page \in UserPages :
             /\ Logged(c, post("ok", Some(page)))
             /\ LET user_id == user_id_of(page) IN
                IF ~user_id.ok
                THEN Return(c, user_id) /\ UNCHANGED <<client, userId>>
                ELSE /\ userId' = [userId EXCEPT ![c] = Some(user_id.val)]
                     /\ UNCHANGED result
                     /\ IF ret[c] = "fetch_activity_html"
                        THEN /\ pc' = [pc EXCEPT ![c] = "fetch_activity"]
                             /\ UNCHANGED client
                        ELSE \* line 311: the client alone is kept
                             /\ pc' = [pc EXCEPT ![c] = "fetch_previous"]
                             /\ client' = [client EXCEPT ![c] = Some(sid)]
  /\ UNCHANGED <<titleBarVars, today, tzGaps, fnArgs, fnResult, cache, server, day, html, ret,
                 newUrl, login>>

\* lines 232-239: GET the first activity page of the user
FetchActivity(c) ==
  /\ pc[c] = "fetch_activity"
  /\ LET url == ActivityUrl(redmine_config, userId[c].val)
         get(st, page) == [op |-> "GET", req |-> "activity", url |-> url,
                           session |-> login[c].val.client, status |-> st,
                           page |-> page]
     IN \/ /\ Logged(c, get("error", None))
           /\ Return(c, Err("request failed"))
           /\ UNCHANGED <<html, server>>
        \/ \E page \in Pages :
             /\ ServerGet(url, page)
             /\ Logged(c, get("ok", Some(page)))
             /\ html' = [html EXCEPT ![c] = Some(page)]
             /\ pc' = [pc EXCEPT ![c] = "write_to_cache"]
             /\ UNCHANGED result
  /\ UNCHANGED <<titleBarVars, today, tzGaps, fnArgs, fnResult, cache, day, client, ret, newUrl,
                 userId, login>>

\* WriteToCache going on to the paginator whether the write worked or not
WriteToCacheBestEffort(c) ==
  /\ pc[c] = "write_to_cache"
  /\ \/ /\ Logged(c, [op |-> "write_to_cache", status |-> "error"])
        /\ UNCHANGED cache
     \/ /\ Logged(c, [op |-> "write_to_cache", status |-> "ok"])
        /\ cache' = html[c]
  /\ client' = [client EXCEPT ![c] = Some(login[c].val.client)]
  /\ pc' = [pc EXCEPT ![c] = "paging"]
  /\ UNCHANGED <<titleBarVars, today, tzGaps, fnArgs, fnResult, server, day, html, ret, newUrl,
                 userId, login, result>>

\* lines 240-241 and 412-416: write the page to the cache, hand page and client
\* to the paginator
WriteToCache(c) ==
  /\ pc[c] = "write_to_cache"
  /\ \/ /\ Logged(c, [op |-> "write_to_cache", status |-> "error"])
        /\ Return(c, Err("cache write failed"))
        /\ UNCHANGED <<cache, client>>
     \/ /\ Logged(c, [op |-> "write_to_cache", status |-> "ok"])
        /\ cache' = html[c]
        /\ client' = [client EXCEPT ![c] = Some(login[c].val.client)]
        /\ pc' = [pc EXCEPT ![c] = "paging"]
        /\ UNCHANGED result
  /\ UNCHANGED <<titleBarVars, today, tzGaps, fnArgs, fnResult, server, day, html, ret, newUrl,
                 userId, login>>

\* Paging that logs in before every previous page, client at hand or not
PagingLoginEveryPage(c, parsed) ==
  IF ~parsed.ok
  THEN /\ Logged(c, [op |-> "parse_html", page |-> html[c].val, status |-> "error"])
       /\ Return(c, parsed)
       /\ UNCHANGED <<newUrl, ret>>
  ELSE /\ Logged(c, [op |-> "parse_html", page |-> html[c].val, status |-> "ok"])
       /\ IF parsed.val.kind = "Done"
          THEN Return(c, Ok(parsed.val.events)) /\ UNCHANGED <<newUrl, ret>>
          ELSE IF ~parsed.val.url.some
          THEN Return(c, Ok(<<>>)) /\ UNCHANGED <<newUrl, ret>>
          ELSE /\ newUrl' = [newUrl EXCEPT ![c] = parsed.val.url]
               /\ UNCHANGED result
               /\ pc' = [pc EXCEPT ![c] = "init_client"]
               /\ ret' = [ret EXCEPT ![c] = "get_events_with_paging"]

\* lines 303-312: the page is parsed; return, or go for the previous page with
\* the client at hand, logging in first when there is none
Paging(c, parsed) ==
  IF ~parsed.ok
  THEN /\ Logged(c, [op |-> "parse_html", page |-> html[c].val, status |-> "error"])
       /\ Return(c, parsed)
       /\ UNCHANGED <<newUrl, ret>>
  ELSE /\ Logged(c, [op |-> "parse_html", page |-> html[c].val, status |-> "ok"])
       /\ IF parsed.val.kind = "Done"
          THEN Return(c, Ok(parsed.val.events)) /\ UNCHANGED <<newUrl, ret>>
          ELSE IF ~parsed.val.url.some
          THEN Return(c, Ok(<<>>)) /\ UNCHANGED <<newUrl, ret>>
          ELSE /\ newUrl' = [newUrl EXCEPT ![c] = parsed.val.url]
               /\ UNCHANGED result
               /\ IF client[c].some
                  THEN pc' = [pc EXCEPT ![c] = "fetch_previous"] /\ UNCHANGED ret
                  ELSE /\ pc' = [pc EXCEPT ![c] = "init_client"]
                       /\ ret' = [ret EXCEPT ![c] = "get_events_with_paging"]

GetEventsWithPaging(c) ==
  /\ pc[c] = "paging"
  /\ Paging(c, parse_html(redmine_config, redmine_locales, day[c].val, html[c].val))
  /\ UNCHANGED <<titleBarVars, today, tzGaps, fnArgs, fnResult, cache, server, day, client, html,
                 userId, login>>

\* how many previous pages call c has asked for
PrevFetches(c) ==
  Len(SelectSeq(log[c], LAMBDA e : e.op = "GET" /\ e.req = "previous"))

\* FetchPrevious writing the page it fetched to the cache
FetchPreviousCaching(c) ==
  /\ pc[c] = "fetch_previous"
  /\ PrevFetches(c) < MaxPrevFetches
  /\ \E page \in Pages :
       /\ ServerGet(newUrl[c].val, page)
       /\ Logged(c, [op |-> "GET", req |-> "previous", url |-> newUrl[c].val,
                     session |-> client[c].val, status |-> "ok", page |-> Some(page)])
       /\ html' = [html EXCEPT ![c] = Some(page)]
       /\ cache' = Some(page)
       /\ pc' = [pc EXCEPT ![c] = "paging"]
  /\ UNCHANGED <<titleBarVars, today, tzGaps, fnArgs, fnResult, day, client, ret, newUrl,
                 userId, login, result>>

\* FetchPrevious with the client of whichever call holds one
FetchPreviousAnyClient(c) ==
  /\ pc[c] = "fetch_previous"
  /\ PrevFetches(c) < MaxPrevFetches
  /\ \E d \in CallIds :
       /\ client[d].some
       /\ \/ /\ Logged(c, [op |-> "GET", req |-> "previous", url |-> newUrl[c].val,
                           session |-> client[d].val, status |-> "error", page |-> None])
             /\ Return(c, Err("request failed"))
             /\ UNCHANGED <<html, server>>
          \/ \E page \in Pages :
               /\ ServerGet(newUrl[c].val, page)
               /\ Logged(c, [op |-> "GET", req |-> "previous", url |-> newUrl[c].val,
                             session |-> client[d].val, status |-> "ok",
                             page |-> Some(page)])
               /\ html' = [html EXCEPT ![c] = Some(page)]
               /\ pc' = [pc EXCEPT ![c] = "paging"]
               /\ UNCHANGED result
  /\ UNCHANGED <<titleBarVars, today, tzGaps, fnArgs, fnResult, cache, day, client, ret, newUrl,
                 userId, login>>

\* lines 313-321: GET the previous page and recurse
FetchPrevious(c) ==
  /\ pc[c] = "fetch_previous"
  /\ PrevFetches(c) < MaxPrevFetches
  /\ LET url == newUrl[c].val
         get(st, page) == [op |-> "GET", req |-> "previous", url |-> url,
                           session |-> client[c].val, status |-> st, page |-> page]
     IN \/ /\ Logged(c, get("error", None))
           /\ Return(c, Err("request failed"))
           /\ UNCHANGED <<html, server>>
        \/ \E page \in Pages :
             /\ ServerGet(url, page)
             /\ Logged(c, get("ok", Some(page)))
             /\ html' = [html EXCEPT ![c] = Some(page)]
             /\ pc' = [pc EXCEPT ![c] = "paging"]
             /\ UNCHANGED result
  /\ UNCHANGED <<titleBarVars, today, tzGaps, fnArgs, fnResult, cache, day, client, ret, newUrl,
                 userId, login>>

-----------------------------------------------------------------------------
(* The title bar (src/widgets/wintitlebar.rs): the WinTitleBar widget, the  *)
(* stacks of the application and the widget's event stream. The window     *)
(* that owns the title bar emits MainWindowStackReady and                  *)
(* EventSourceNamesChanged; a stack emits ScreenChanged through each       *)
(* handler connected to it; the New button emits NewEventSourceClick when  *)
(* it is clicked, which takes a visible button.                            *)

\* messages emitted and not yet handled: at most
MaxStream == 3
\* ScreenChanged handlers connected to one stack: at most
MaxHandlers == 2

StackIds == {"stack1", "stack2"}

\* Stack::get_visible_child_name
ChildNames == {None, Some("events"), Some("event-sources")}

\* WinTitleBar::model and the view: no stack, the New button hidden. With it,
\* the stacks that exist and an empty event stream.
TitleBarInit(existing_source_names, stks) ==
  /\ self = [model |-> [displaying_event_sources |-> FALSE,
                        main_window_stack |-> None,
                        existing_source_names |-> existing_source_names],
             header_bar |-> [title |-> Some("Cigale"), subtitle |-> None],
             new_event_source_btn |-> [label |-> "New", visible |-> FALSE],
             main_window_stack_switcher |-> [stack |-> None]]
  /\ stacks = stks
  /\ stream = <<>>
  /\ dialog = "none"
  /\ panic = None

\* update is called with the first message of the stream
Handling(m) == panic = None /\ stream # <<>> /\ Head(stream).msg = m

\* mutant of MainWindowStackReady: the handler is connected, the stack is not kept
MainWindowStackReadyConnectOnly ==
  /\ Handling("MainWindowStackReady")
  /\ self' = [self EXCEPT !.main_window_stack_switcher.stack = Some(Head(stream).stack)]
  /\ stacks' = [stacks EXCEPT ![Head(stream).stack].handlers = @ + 1]
  /\ stream' = Tail(stream)
  /\ UNCHANGED <<dialog, panic, redmineVars>>

\* Msg::MainWindowStackReady(stack): keeps the stack, gives it to the switcher
\* and connects ScreenChanged to the stack's visible-child-name notification
MainWindowStackReady ==
  /\ Handling("MainWindowStackReady")
  /\ self' = [self EXCEPT !.model.main_window_stack = Some(Head(stream).stack),
                          !.main_window_stack_switcher.stack = Some(Head(stream).stack)]
  /\ stacks' = [stacks EXCEPT ![Head(stream).stack].handlers = @ + 1]
  /\ stream' = Tail(stream)
  /\ UNCHANGED <<dialog, panic, redmineVars>>

\* Msg::ScreenChanged: unwraps the stack, then sets displaying_event_sources,
\* the subtitle and the visibility of the New button from its visible child
ScreenChanged ==
  /\ Handling("ScreenChanged")
  /\ stream' = Tail(stream)
  /\ IF ~self.model.main_window_stack.some
       THEN panic' = Some("main_window_stack") /\ UNCHANGED self
       ELSE /\ self' =
                 [self EXCEPT
                    !.model.displaying_event_sources =
                       stacks[self.model.main_window_stack.val].visible_child_name
                         = Some("event-sources"),
                    !.header_bar.subtitle =
                       IF stacks[self.model.main_window_stack.val].visible_child_name
                            = Some("event-sources")
                       THEN Some("Event Sources") ELSE None,
                    !.new_event_source_btn.visible =
                       stacks[self.model.main_window_stack.val].visible_child_name
                         = Some("event-sources")]
            /\ UNCHANGED panic
  /\ UNCHANGED <<stacks, dialog, redmineVars>>

\* Msg::NewEventSourceClick, that is run_event_source_addedit_dlg: unwraps the
\* stack, then the window it is in, and runs the dialog; the dialog may emit
\* AddConfig, and is destroyed when it is cancelled or closed
NewEventSourceClick ==
  /\ Handling("NewEventSourceClick")
  /\ IF ~self.model.main_window_stack.some
       THEN panic' = Some("main_window_stack") /\ stream' = Tail(stream) /\ UNCHANGED dialog
       ELSE IF ~stacks[self.model.main_window_stack.val].in_window
              THEN panic' = Some("main_win") /\ stream' = Tail(stream) /\ UNCHANGED dialog
              ELSE \E resp \in {"Cancel", "DeleteEvent", "Other"}, added \in BOOLEAN :
                     /\ dialog' = IF resp \in {"Cancel", "DeleteEvent"}
                                  THEN "destroyed" ELSE "left"
                     /\ stream' = IF added
                                  THEN Append(Tail(stream), [msg |-> "AddConfig"])
                                  ELSE Tail(stream)
                     /\ UNCHANGED panic
  /\ UNCHANGED <<self, stacks, redmineVars>>

\* Msg::EventSourceNamesChanged(src)
EventSourceNamesChanged ==
  /\ Handling("EventSourceNamesChanged")
  /\ self' = [self EXCEPT !.model.existing_source_names = Head(stream).src]
  /\ stream' = Tail(stream)
  /\ UNCHANGED <<stacks, dialog, panic, redmineVars>>

\* Msg::AddConfig: meant for the window, nothing is done
AddConfig ==
  /\ Handling("AddConfig")
  /\ stream' = Tail(stream)
  /\ UNCHANGED <<self, stacks, dialog, panic, redmineVars>>

\* a message is emitted on the stream of the widget
Emit(msgs) ==
  /\ panic = None
  /\ Len(stream) + Len(msgs) <= MaxStream
  /\ stream' = stream \o msgs

\* the window emits MainWindowStackReady with one of the stacks
EmitMainWindowStackReady(stack) ==
  /\ stacks[stack].handlers
       + Cardinality({i \in DOMAIN stream :
                        stream[i] = [msg |-> "MainWindowStackReady", stack |-> stack]})
       < MaxHandlers
  /\ Emit(<<[msg |-> "MainWindowStackReady", stack |-> stack]>>)
  /\ UNCHANGED <<self, stacks, dialog, panic, redmineVars>>

\* the window emits EventSourceNamesChanged
EmitEventSourceNamesChanged(src) ==
  /\ Emit(<<[msg |-> "EventSourceNamesChanged", src |-> src]>>)
  /\ UNCHANGED <<self, stacks, dialog, panic, redmineVars>>

\* the visible child of a stack changes: every handler connected to the stack
\* emits ScreenChanged
VisibleChildNameNotify(stack, name) ==
  /\ name # stacks[stack].visible_child_name
  /\ stacks' = [stacks EXCEPT ![stack].visible_child_name = name]
  /\ Emit([i \in 1..stacks[stack].handlers |-> [msg |-> "ScreenChanged"]])
  /\ UNCHANGED <<self, dialog, panic, redmineVars>>

\* the New button is clicked: it is visible
Clicked ==
  /\ self.new_event_source_btn.visible
  /\ Emit(<<[msg |-> "NewEventSourceClick"]>>)
  /\ UNCHANGED <<self, stacks, dialog, panic, redmineVars>>

-----------------------------------------------------------------------------
(* Specifications.                                                         *)

Environments ==
  {[today |-> t, tzGaps |-> g] : t \in {TargetDay, DayAfter}, g \in {{}, {GapDate}}}

CachedPages ==
  { Page(Some("en"), <<Day(HdrAfter, AnyBlock)>>, PrevLink(Some(h))) : h \in PrevHrefs }
    \cup { Page(Some("en"), <<Day(HdrTarget, Some(GoodBlock(MaxEvents)))>>, NoLink) }

InitCalls ==
  /\ pc = [c \in CallIds |-> "idle"]
  /\ day = [c \in CallIds |-> None]
  /\ client = [c \in CallIds |-> None]
  /\ html = [c \in CallIds |-> None]
  /\ ret = [c \in CallIds |-> "none"]
  /\ newUrl = [c \in CallIds |-> None]
  /\ userId = [c \in CallIds |-> None]
  /\ login = [c \in CallIds |-> None]
  /\ result = [c \in CallIds |-> None]
  /\ log = [c \in CallIds |-> <<>>]
  /\ server = <<>>

Init ==
  /\ TitleBarInit({}, <<>>)
  /\ \E e \in Environments : today = e.today /\ tzGaps = e.tzGaps
  /\ cache \in {None} \cup {Some(p) : p \in CachedPages}
  /\ fnArgs = None
  /\ fnResult = None
  /\ InitCalls

Next ==
  \/ \E c \in Sequential : GetEvents(c)
  \/ \E c \in Sequential : InitClientGetRoot(c)
  \/ \E c \in Sequential : InitClientPostLogin(c)
  \/ \E c \in Sequential : FetchActivity(c)
  \/ \E c \in Sequential : WriteToCache(c)
  \/ \E c \in Sequential : GetEventsWithPaging(c)
  \/ \E c \in Sequential : FetchPrevious(c)

Spec == Init /\ [][Next]_vars

\* A server with its three pages set: the activity page of the user and the
\* pages behind the two previous links.
FeedOf(first, second, third) ==
  [u \in FeedUrls |->
     IF u = ActivityUrl(redmine_config, <<"5">>) THEN first
     ELSE IF u = redmine_config.server_url \o PrevHref(1) THEN second
     ELSE third]

\* three pages, two of later days, then the target day
LongFeed ==
  FeedOf(Page(Some("en"), <<Day(HdrAfter, AnyBlock)>>, PrevLink(Some(PrevHref(1)))),
         Page(Some("en"), <<Day(HdrAfter, AnyBlock)>>, PrevLink(Some(PrevHref(2)))),
         Page(Some("en"), <<Day(HdrTarget, Some(GoodBlock(1)))>>, NoLink))

\* feeds of such pages: one that ends on an empty page, one whose previous
\* links lead round (1, 2, 1, ...), one whose first previous page links to
\* itself, one that ends after one previous page
Feeds ==
  { FeedOf(TodayPage(PrevLink(Some(PrevHref(1)))), TodayPage(PrevLink(Some(PrevHref(2)))),
           Page(Some("en"), <<>>, NoLink)),
    FeedOf(TodayPage(PrevLink(Some(PrevHref(1)))), TodayPage(PrevLink(Some(PrevHref(2)))),
           TodayPage(PrevLink(Some(PrevHref(1))))),
    FeedOf(TodayPage(PrevLink(Some(PrevHref(1)))), TodayPage(PrevLink(Some(PrevHref(1)))),
           TodayPage(NoLink)),
    FeedOf(TodayPage(PrevLink(Some(PrevHref(2)))), TodayPage(NoLink), TodayPage(NoLink)) }

\* One call whose every blocking step returns: a request, a cache access or a
\* parse that has been started comes to an end, so the call keeps taking the
\* step it is at. The server has one of the feeds.
InitLive ==
  /\ TitleBarInit({}, <<>>)
  /\ \E e \in Environments : today = e.today /\ tzGaps = e.tzGaps
  /\ cache \in {None} \cup {Some(TodayPage(PrevLink(Some(h)))) : h \in PrevHrefs}
  /\ fnArgs = None
  /\ fnResult = None
  /\ pc = [c \in CallIds |-> "idle"]
  /\ day = [c \in CallIds |-> None]
  /\ client = [c \in CallIds |-> None]
  /\ html = [c \in CallIds |-> None]
  /\ ret = [c \in CallIds |-> "none"]
  /\ newUrl = [c \in CallIds |-> None]
  /\ userId = [c \in CallIds |-> None]
  /\ login = [c \in CallIds |-> None]
  /\ result = [c \in CallIds |-> None]
  /\ log = [c \in CallIds |-> <<>>]
  /\ server \in Feeds

SpecLive == InitLive /\ [][Next]_vars /\ WF_vars(Next)

\* Two calls of get_events for the same configuration, their steps interleaved
\* in any order, against the feed of three pages.
InitConcurrent ==
  /\ TitleBarInit({}, <<>>)
  /\ today = DayAfter /\ tzGaps = {}
  /\ cache \in {None} \cup {Some(p) : p \in CachedPages}
  /\ fnArgs = None
  /\ fnResult = None
  /\ pc = [c \in CallIds |-> "idle"]
  /\ day = [c \in CallIds |-> None]
  /\ client = [c \in CallIds |-> None]
  /\ html = [c \in CallIds |-> None]
  /\ ret = [c \in CallIds |-> "none"]
  /\ newUrl = [c \in CallIds |-> None]
  /\ userId = [c \in CallIds |-> None]
  /\ login = [c \in CallIds |-> None]
  /\ result = [c \in CallIds |-> None]
  /\ log = [c \in CallIds |-> <<>>]
  /\ server = LongFeed

NextConcurrent ==
  \/ \E c \in CallIds : GetEvents(c)
  \/ \E c \in CallIds : InitClientGetRoot(c)
  \/ \E c \in CallIds : InitClientPostLogin(c)
  \/ \E c \in CallIds : FetchActivity(c)
  \/ \E c \in CallIds : WriteToCache(c)
  \/ \E c \in CallIds : GetEventsWithPaging(c)
  \/ \E c \in CallIds : FetchPrevious(c)

SpecConcurrent == InitConcurrent /\ [][NextConcurrent]_vars

\* the day blocks with t time elements, d descriptions and l links
EventBlocks ==
  {Block(Times(t), Descriptions(d), Links(l)) :
     t \in 0..(MaxEvents + 1), d \in 0..(MaxEvents + 1), l \in 0..(MaxEvents + 1)}

\* The parsers alone: one call of parse_date or parse_time on a text, or of
\* parse_events on a day block.
InitParse ==
  /\ TitleBarInit({}, <<>>)
  /\ \E e \in Environments : today = e.today /\ tzGaps = e.tzGaps
  /\ cache = None
  /\ fnArgs \in
       {Some([fn |-> "parse_time", time_str |-> s]) : s \in TimeTexts}
         \cup {Some([fn |-> "parse_events", contents_elt |-> b]) : b \in EventBlocks}
         \cup UNION {{Some([fn |-> "parse_date", locale |-> t, date_str |-> s]) :
                        s \in DateTexts(t)} : t \in DOMAIN redmine_locales}
  /\ fnResult = None
  /\ InitCalls

ParseTimeCall ==
  /\ fnArgs.val.fn = "parse_time"
  /\ fnResult = None
  /\ fnResult' = Some(parse_time(fnArgs.val.time_str))
  /\ UNCHANGED <<titleBarVars, today, tzGaps, fnArgs, cache, server, pc, day, client, html, ret,
                 newUrl, userId, login, result, log>>

ParseDateCall ==
  /\ fnArgs.val.fn = "parse_date"
  /\ fnResult = None
  /\ fnResult' = Some(parse_date(redmine_locales[fnArgs.val.locale], fnArgs.val.date_str))
  /\ UNCHANGED <<titleBarVars, today, tzGaps, fnArgs, cache, server, pc, day, client, html, ret,
                 newUrl, userId, login, result, log>>

ParseEventsCall ==
  /\ fnArgs.val.fn = "parse_events"
  /\ fnResult = None
  /\ fnResult' = Some(parse_events(redmine_config, fnArgs.val.contents_elt))
  /\ UNCHANGED <<titleBarVars, today, tzGaps, fnArgs, cache, server, pc, day, client, html, ret,
                 newUrl, userId, login, result, log>>

NextParse == ParseTimeCall \/ ParseDateCall \/ ParseEventsCall

SpecParse == InitParse /\ [][NextParse]_vars

\* The title bar alone, with two stacks showing any child or none, the first
\* in a window, the second in one or not; no call of get_events is made.
InitTitleBar ==
  /\ \E names \in SUBSET {"Redmine"} :
       \E stks \in [StackIds -> [visible_child_name : ChildNames,
                                 in_window : BOOLEAN, handlers : {0}]] :
         stks["stack1"].in_window /\ TitleBarInit(names, stks)
  /\ today = TargetDay /\ tzGaps = {}
  /\ cache = None
  /\ fnArgs = None
  /\ fnResult = None
  /\ InitCalls

NextTitleBar ==
  \/ MainWindowStackReady
  \/ ScreenChanged
  \/ NewEventSourceClick
  \/ EventSourceNamesChanged
  \/ AddConfig
  \/ \E stack \in StackIds : EmitMainWindowStackReady(stack)
  \/ EmitEventSourceNamesChanged({"Redmine"})
  \/ \E stack \in StackIds, name \in ChildNames : VisibleChildNameNotify(stack, name)
  \/ Clicked

SpecTitleBar == InitTitleBar /\ [][NextTitleBar]_vars

-----------------------------------------------------------------------------
(* Properties of the parsers, checked under SpecParse.                     *)

TimeCalled == fnArgs.some /\ fnArgs.val.fn = "parse_time" /\ fnResult.some
DateCalled == fnArgs.some /\ fnArgs.val.fn = "parse_date" /\ fnResult.some

AllSpaces(s, from, n) == \A k \in from..(from + n - 1) : s[k] = " "
AllDigits(s, from, n) == \A k \in from..(from + n - 1) : IsAsciiDigit(s[k])
NumberAt(s, from, n) == DigitsValue(SubSeq(s, from, from + n - 1), n)

\* s is a 24-hour time: one or two digits, a colon, one or two digits
Is24Hour(s, i, j) ==
  /\ Len(s) = i + 1 + j
  /\ AllDigits(s, 1, i) /\ s[i + 1] = ":" /\ AllDigits(s, i + 2, j)
  /\ NumberAt(s, 1, i) <= 23 /\ NumberAt(s, i + 2, j) <= 59

\* s is a 12-hour time: hour 1 to 12, a colon, the minute, AM or PM in any case,
\* with optional blanks before each number and before the meridiem
Is12Hour(s, lead, i, g1, j, g2) ==
  /\ Len(s) = lead + i + 1 + g1 + j + g2 + 2
  /\ AllSpaces(s, 1, lead) /\ AllDigits(s, lead + 1, i)
  /\ s[lead + i + 1] = ":"
  /\ AllSpaces(s, lead + i + 2, g1) /\ AllDigits(s, lead + i + 2 + g1, j)
  /\ AllSpaces(s, lead + i + 2 + g1 + j, g2)
  /\ LowerChar(s[Len(s) - 1]) \in {"a", "p"} /\ LowerChar(s[Len(s)]) = "m"
  /\ NumberAt(s, lead + 1, i) \in 1..12
  /\ NumberAt(s, lead + i + 2 + g1, j) <= 59

Shapes24(s) == {x \in (1..2) \X (1..2) : Is24Hour(s, x[1], x[2])}
Shapes12(s) ==
  {x \in (0..Len(s)) \X (1..2) \X (0..Len(s)) \X (1..2) \X (0..Len(s)) :
     Is12Hour(s, x[1], x[2], x[3], x[4], x[5])}

\* the time a text of either shape denotes
TimeOf24(s, x) == NaiveTime(NumberAt(s, 1, x[1]), NumberAt(s, x[1] + 2, x[2]))
TimeOf12(s, x) ==
  NaiveTime(To24(NumberAt(s, x[1] + 1, x[2]),
                 IF LowerChar(s[Len(s) - 1]) = "p" THEN 1 ELSE 0),
            NumberAt(s, x[1] + x[2] + 2 + x[3], x[4]))

\* C9: parse_time reads a text with a space as a 12-hour time with AM/PM and
\* any other text as a 24-hour time; the 12-hour text of hour h (1 to 12),
\* minute m and meridiem gives the same time of day, with hour 0 to 23, as the
\* 24-hour text of that time ("01:30 PM" and "13:30" both give 13:30); a text
\* of neither shape gives an error value.
ParseTimeForms ==
  TimeCalled =>
    LET s == fnArgs.val.time_str
        r == fnResult.val
    IN /\ r.ok => r.val.h \in 0..23 /\ r.val.m \in 0..59 /\ r.val.s = 0
       /\ IF contains(s, " ")
          THEN /\ r.ok <=> Shapes12(s) # {}
               /\ \A x \in Shapes12(s) : r = Ok(TimeOf12(s, x))
          ELSE /\ r.ok <=> Shapes24(s) # {}
               /\ \A x \in Shapes24(s) : r = Ok(TimeOf24(s, x))
       /\ \A h \in 1..12, m \in 0..59, mer \in Meridiems :
            s = Render12(h, m, mer) =>
              /\ r = Ok(NaiveTime(To24(h, IF IsPm(mer) THEN 1 ELSE 0), m))
              /\ r = parse_time(Render24(To24(h, IF IsPm(mer) THEN 1 ELSE 0), m))
       /\ \A h \in 0..23, m \in 0..59 : s = Render24(h, m) => r = Ok(NaiveTime(h, m))
       /\ s = <<"0", "1", ":", "3", "0", " ", "P", "M">> => r = Ok(NaiveTime(13, 30))
       /\ s = <<"1", "3", ":", "3", "0">> => r = Ok(NaiveTime(13, 30))

\* parse_time has given 13:30 for "01:30 PM"
ParseTimeFormsWitness ==
  /\ TimeCalled
  /\ fnArgs.val.time_str = Render12(1, 30, <<"P", "M">>)
  /\ fnResult.val = Ok(NaiveTime(13, 30))

\* r is the date d, or an error when d has no single local midnight
IsDate(r, d) == IF d \in tzGaps THEN ~r.ok ELSE r = Ok(d)

\* the first literal character of a date pattern
Separator(fmt) == fmt[3]

\* C8: parse_date decides in this order: the lowercased text is the locale's
\* word for today: the current local date; else the text has the shape
\* YYYY-MM-DD: the ISO date, whatever the locale's pattern; else the date under
\* the locale's pattern; a text the chosen pattern does not match is an error.
\* "2020-03-23" is 2020-03-23 under every locale, "03/23/2020" under %m/%d/%Y
\* and "23.03.2020" under %d.%m.%Y are 2020-03-23.
ParseDateOrder ==
  DateCalled =>
    LET s == fnArgs.val.date_str
        locale == redmine_locales[fnArgs.val.locale]
        r == fnResult.val
    IN /\ s \in {locale.today_translation, Capitalize(locale.today_translation)}
            => r = Ok(today)
       /\ to_lowercase(s) = locale.today_translation => r = Ok(today)
       /\ \A d \in ModelDates : s = RenderDate(FmtIso, d) => IsDate(r, d)
       /\ \A d \in ModelDates : s = RenderDate(locale.date_format, d) => IsDate(r, d)
       /\ s \in GarbageDateTexts => ~r.ok
       /\ \A f \in Formats, d \in ModelDates :
            /\ s = RenderDate(f, d)
            /\ Separator(f) # Separator(locale.date_format)
            /\ f # FmtIso
            => ~r.ok
       /\ s = <<"2", "0", "2", "0", "-", "0", "3", "-", "2", "3">>
            => r = Ok(D_2020_03_23)
       /\ /\ s = <<"0", "3", "/", "2", "3", "/", "2", "0", "2", "0">>
          /\ locale.date_format = <<"%", "m", "/", "%", "d", "/", "%", "Y">>
          => r = Ok(D_2020_03_23)
       /\ /\ s = <<"2", "3", ".", "0", "3", ".", "2", "0", "2", "0">>
          /\ locale.date_format = <<"%", "d", ".", "%", "m", ".", "%", "Y">>
          => r = Ok(D_2020_03_23)

\* parse_date has read "2020-03-23" as an ISO date under the pattern %d-%m-%Y
ParseDateOrderWitness ==
  /\ DateCalled
  /\ fnArgs.val.locale = "nl"
  /\ fnArgs.val.date_str = RenderDate(FmtIso, D_2020_03_23)
  /\ fnResult.val = Ok(D_2020_03_23)

-----------------------------------------------------------------------------
(* Properties of get_events, checked under Spec.                           *)

Failed(c) == Returned(c) /\ ~result[c].val.ok
Done(c) == Returned(c) /\ result[c].val.ok

CacheHit(c) ==
  /\ log[c] # <<>>
  /\ log[c][1].op = "get_cached_contents"
  /\ log[c][1].status = "hit"

\* init_client has been entered, or is about to be
LoginInvoked(c) == ClientsBuilt(c) > 0 \/ pc[c] = "init_client"

HasPreviousHref(page) == page.previous.present /\ page.previous.href.some

\* the positions of the log of c at which a page was parsed
ParsedAt(c) == {i \in DOMAIN log[c] : log[c][i].op = "parse_html"}

\* the pages call c has parsed, in order
ParsedPages(c) ==
  LET entries == SelectSeq(log[c], LAMBDA e : e.op = "parse_html")
  IN [i \in DOMAIN entries |-> entries[i].page]

-----------------------------------------------------------------------------
(* What a page shows, read off the page itself.                            *)

KnownLocale(page) == page.lang.some /\ page.lang.val \in DOMAIN redmine_locales

\* the dates the i-th header of the page stands for: a date written in the
\* pattern of the page's locale or in the ISO form whose local midnight is
\* unique, or the locale's word for today
HeaderDates(page, i) ==
  LET info == redmine_locales[page.lang.val]
      h == page.days[i].header
  IN {d \in ModelDates \ tzGaps :
        h \in {RenderDate(info.date_format, d), RenderDate(FmtIso, d)}}
       \cup (IF to_lowercase(h) = info.today_translation THEN {today} ELSE {})

HeaderLater(page, i, target) ==
  HeaderDates(page, i) # {} /\ \A d \in HeaderDates(page, i) : DateLt(target, d)
HeaderEqual(page, i, target) == HeaderDates(page, i) = {target}
HeaderEarlier(page, i, target) ==
  HeaderDates(page, i) # {} /\ \A d \in HeaderDates(page, i) : DateLt(d, target)

\* the header/block pairs of the page: the i-th header with the i-th block
NumPairs(page) == Len(SelectDayContents(page.days))
PairedBlock(page, i) == SelectDayContents(page.days)[i]

\* every header of the page has a block of its own
OwnBlocks(page) == \A i \in DOMAIN page.days : page.days[i].block.some

\* the headers of the page are dated, most recent day first
ReverseChronological(page) ==
  /\ \A i \in DOMAIN page.days : Cardinality(HeaderDates(page, i)) = 1
  /\ \A i, j \in DOMAIN page.days :
       i < j => \A d \in HeaderDates(page, i), e \in HeaderDates(page, j) : DateLt(e, d)

\* a page of later days only, with a link to the previous page
OnlyLaterDays(page, target) ==
  /\ KnownLocale(page) /\ ReverseChronological(page)
  /\ \A i \in DOMAIN page.days : HeaderLater(page, i, target)
  /\ HasPreviousHref(page)

\* a page with a header of the target day whose block holds the k events
HoldsTargetDay(page, target, k) ==
  /\ KnownLocale(page) /\ ReverseChronological(page)
  /\ \E i \in DOMAIN page.days :
       /\ HeaderEqual(page, i, target)
       /\ page.days[i].block = Some(GoodBlock(k))

IsSubText(sub, text) ==
  \E i \in 1..(Len(text) - Len(sub) + 1) : SubSeq(text, i, i + Len(sub) - 1) = sub

\* events is the list of the first k events of the catalogue
EventsAre(events, k) ==
  /\ Len(events) = k
  /\ \A i \in 1..k :
       /\ events[i].time = NaiveTime(EventHour(i), EventMinute(i))
       /\ events[i].title = EventTitle(i)
       /\ events[i].body.kind = "Markup"
       /\ IsSubText(redmine_config.server_url \o EventHref(i), events[i].body.text)

\* the page requests of call c that were answered, in order
PageGets(c) ==
  SelectSeq(log[c], LAMBDA e : e.op = "GET" /\ e.req \in {"activity", "previous"}
                                 /\ e.status = "ok")

\* the n pages were obtained in order, each once: the first from the cache or
\* the user's activity URL, each next one from the previous link of the one
\* before
ObtainedInOrder(c, pages) ==
  LET n == Len(pages)
      hit == IF CacheHit(c) THEN 1 ELSE 0
      gets == PageGets(c)
  IN /\ Len(gets) = n - hit
     /\ \A e \in {log[c][i] : i \in DOMAIN log[c]} : e.op = "GET" => e.status = "ok"
     /\ hit = 1 => cache = Some(pages[1])
     /\ hit = 0 =>
          /\ gets[1].req = "activity"
          /\ gets[1].url = ActivityUrl(redmine_config, userId[c].val)
          /\ gets[1].page = Some(pages[1])
     /\ \A i \in 2..n :
          /\ gets[i - hit].req = "previous"
          /\ gets[i - hit].url = redmine_config.server_url \o pages[i - 1].previous.href.val
          /\ gets[i - hit].page = Some(pages[i])

FeedWalked(c, k, lastPage(_)) ==
  LET pages == ParsedPages(c)
      n == Len(pages)
  IN (/\ n >= 1
      /\ \A i \in 1..(n - 1) : OnlyLaterDays(pages[i], day[c].val)
      /\ lastPage(pages[n]))
       => /\ Done(c)
          /\ EventsAre(result[c].val.val, k)
          /\ ObtainedInOrder(c, pages)

\* C2, as claimed: over a feed of n pages, the first n-1 of later days only and
\* a previous link, the n-th with a header of the target day whose block
\* holds k well-formed events, get_events returns those k events, having
\* obtained the n pages in order.
FeedWalkReturnsTargetDay ==
  \A c \in CallIds : \A k \in 0..MaxEvents :
    FeedWalked(c, k, LAMBDA p : HoldsTargetDay(p, day[c].val, k))

\* C2 where every header of the last page has a block of its own: then the k
\* events are returned.
FeedWalkReturnsTargetDayOwnBlocks ==
  \A c \in CallIds : \A k \in 0..MaxEvents :
    FeedWalked(c, k, LAMBDA p : HoldsTargetDay(p, day[c].val, k) /\ OwnBlocks(p))

\* a walk over two pages that returned the event of 09:00 of the second
FeedWalkReturnsTargetDayOwnBlocksWitness ==
  \E c \in CallIds :
    LET pages == ParsedPages(c) IN
      /\ Len(pages) = 2
      /\ OnlyLaterDays(pages[1], day[c].val)
      /\ HoldsTargetDay(pages[2], day[c].val, 1) /\ OwnBlocks(pages[2])
      /\ Done(c)
      /\ result[c].val.val[1].time = NaiveTime(9, 0)

-----------------------------------------------------------------------------
(* Failures.                                                               *)

TokenMissing(root) == ~(root.input /\ root.value.some)

\* the i-th step of call c failed
FailedStep(c, i) ==
  LET e == log[c][i] IN
    /\ e.op # "new_client"
    /\ \/ e.status = "error"
       \/ e.op = "POST" /\ e.status = "ok" /\ ~user_id_of(e.page.val).ok
       \/ e.op = "GET" /\ e.req = "root" /\ e.status = "ok" /\ TokenMissing(e.page.val)

\* the failed step is the last thing call c did, and the call failed
EndsTheCall(c, i) == i = Len(log[c]) /\ Failed(c)

\* a call that has returned does nothing more
Terminal ==
  \A c \in CallIds :
    Returned(c) => /\ pc'[c] = pc[c] /\ result'[c] = result[c] /\ log'[c] = log[c]
                   /\ client'[c] = client[c]

\* C3, as claimed: a step of a call that failed is the last step of the call,
\* which ends in Failed: no login, request or cache write follows; a call that
\* has returned does nothing more.
FailureEndsTheCall ==
  /\ [](\A c \in CallIds : \A i \in DOMAIN log[c] : FailedStep(c, i) => EndsTheCall(c, i))
  /\ [][Terminal]_vars

\* C3 but for a root page without a token: every other failed step ends the call.
FailureEndsTheCallButMissingToken ==
  /\ [](\A c \in CallIds : \A i \in DOMAIN log[c] :
          (FailedStep(c, i) /\ ~(log[c][i].op = "GET" /\ log[c][i].req = "root"
                                  /\ log[c][i].status = "ok"))
            => EndsTheCall(c, i))
  /\ [][Terminal]_vars

\* C10, as claimed: when the root page fetched by the login has no token
\* input, or the input has no value, the call returns an error, without a
\* crash and without a POST to the login endpoint.
MissingTokenIsAnError ==
  \A c \in CallIds : \A i \in DOMAIN log[c] :
    (log[c][i].op = "GET" /\ log[c][i].req = "root" /\ log[c][i].status = "ok"
       /\ TokenMissing(log[c][i].page.val))
      => /\ pc[c] # "panicked"
         /\ Failed(c)
         /\ \A j \in DOMAIN log[c] : log[c][j].op # "POST"

-----------------------------------------------------------------------------
(* One page.                                                               *)

\* what parse_html makes of the page parsed at step i of call c
ParsedAs(c, i) ==
  parse_html(redmine_config, redmine_locales, day[c].val, log[c][i].page)

\* the pair at which the page parsed at step i meets the target day, all pairs
\* before it being of later days
TargetPairs(c, i) ==
  LET page == log[c][i].page IN
    IF ~KnownLocale(page) THEN {}
    ELSE {j \in 1..NumPairs(page) :
            /\ HeaderEqual(page, j, day[c].val)
            /\ \A m \in 1..(j - 1) : HeaderLater(page, m, day[c].val)}

\* an event of the block cannot be extracted
Defective(block) ==
  \/ \E m \in DOMAIN block.times : block.times[m] = BadTimeText
  \/ Len(block.descriptions) < Len(block.times)
  \/ Len(block.links) < Len(block.times)

\* C4: when an event of the block of the target day cannot be extracted, the
\* call fails and returns no event; when the call succeeds, it returns one
\* event for every time element of the block, in order.
NoPartialEventList ==
  \A c \in CallIds : \A i \in ParsedAt(c) : \A j \in TargetPairs(c, i) :
    LET block == PairedBlock(log[c][i].page, j) IN
      /\ i = Len(log[c]) /\ Returned(c)
      /\ Defective(block) => log[c][i].status = "error" /\ Failed(c)
      /\ ~Defective(block) =>
           /\ Done(c)
           /\ Len(result[c].val.val) = Len(block.times)
           /\ \A m \in DOMAIN block.times :
                /\ result[c].val.val[m].title = block.links[m].text
                /\ parse_time(block.times[m]) = Ok(result[c].val.val[m].time)

\* a call failed on the second event of the target day, the first being
\* well-formed
NoPartialEventListWitness ==
  \E c \in CallIds : \E i \in ParsedAt(c) : \E j \in TargetPairs(c, i) :
    /\ PairedBlock(log[c][i].page, j) = ShortLinksBlock(2)
    /\ Failed(c)
    /\ result[c].val = Err("Redmine event: no link?")

\* the pairs of the page parsed at step i are all of later days
AllPairsLater(c, i) ==
  LET page == log[c][i].page IN
    /\ KnownLocale(page)
    /\ \A m \in 1..NumPairs(page) : HeaderLater(page, m, day[c].val)

\* C5: a page whose pairs are all of later days and that has no previous link
\* parses to ReachedEndOfPage(None), and the call ends there in Done with no
\* event.
ExhaustedFeedIsDone ==
  \A c \in CallIds : \A i \in ParsedAt(c) :
    (AllPairsLater(c, i) /\ ~HasPreviousHref(log[c][i].page)) =>
      /\ ParsedAs(c, i) = Ok(ReachedEndOfPage(None))
      /\ log[c][i].status = "ok"
      /\ i = Len(log[c])
      /\ Done(c) /\ result[c].val = Ok(<<>>)

\* a walk ended on a second page of a later day with no previous link
ExhaustedFeedIsDoneWitness ==
  \E c \in CallIds : \E i \in ParsedAt(c) :
    /\ AllPairsLater(c, i) /\ NumPairs(log[c][i].page) >= 1
    /\ ~HasPreviousHref(log[c][i].page)
    /\ PrevFetches(c) = 1
    /\ Done(c)

\* the first pair of the page parsed at step i that is not of a later day is
\* of an earlier day
EarlierPairs(c, i) ==
  LET page == log[c][i].page IN
    IF ~KnownLocale(page) THEN {}
    ELSE {j \in 1..NumPairs(page) :
            /\ HeaderEarlier(page, j, day[c].val)
            /\ \A m \in 1..(j - 1) : HeaderLater(page, m, day[c].val)}

\* C6: at the first pair of an earlier day, no pair before it being of the
\* target day, the page parses to Done([]) whatever follows on the page, and
\* the call ends there in Done with no event, previous link or not.
EarlierDayStopsTheWalk ==
  \A c \in CallIds : \A i \in ParsedAt(c) :
    EarlierPairs(c, i) # {} =>
      /\ ParsedAs(c, i) = Ok(ActivityDone(<<>>))
      /\ log[c][i].status = "ok"
      /\ i = Len(log[c])
      /\ Done(c) /\ result[c].val = Ok(<<>>)

\* a call ended in Done at a page of an earlier day followed by a header
\* that is no date, the page having a previous link
EarlierDayStopsTheWalkWitness ==
  \E c \in CallIds : \E i \in ParsedAt(c) :
    LET page == log[c][i].page IN
      /\ 1 \in EarlierPairs(c, i)
      /\ Len(page.days) = 2 /\ page.days[2].header = HdrBad
      /\ HasPreviousHref(page)
      /\ Done(c)

\* the page requests of call c after step i
PageGetsAfter(c, i) ==
  {j \in DOMAIN log[c] : j > i /\ log[c][j].op = "GET" /\ log[c][j].req # "root"}

\* C7: a page whose pairs are all of later days and that has a previous link
\* with href h parses to ReachedEndOfPage(Some(server_url + h)), and the next
\* page the call requests is the one at that URL.
PreviousPageUrl ==
  \A c \in CallIds : \A i \in ParsedAt(c) :
    LET page == log[c][i].page
        url == redmine_config.server_url \o page.previous.href.val
    IN (AllPairsLater(c, i) /\ HasPreviousHref(page)) =>
         /\ ParsedAs(c, i) = Ok(ReachedEndOfPage(Some(url)))
         /\ log[c][i].status = "ok"
         /\ i = Len(log[c]) => pc[c] \in {"init_client", "fetch_previous"} /\ newUrl[c] = Some(url)
         /\ \A j \in PageGetsAfter(c, i) :
              (\A m \in PageGetsAfter(c, i) : j <= m) =>
                log[c][j].req = "previous" /\ log[c][j].url = url

\* the previous page was requested at server_url + href and answered
PreviousPageUrlWitness ==
  \E c \in CallIds : \E i \in ParsedAt(c) :
    /\ AllPairsLater(c, i) /\ HasPreviousHref(log[c][i].page)
    /\ i < Len(log[c])
    /\ log[c][i + 1].op = "GET" /\ log[c][i + 1].status = "ok"
    /\ log[c][i + 1].url =
         redmine_config.server_url \o log[c][i].page.previous.href.val

-----------------------------------------------------------------------------
(* The language of the page.                                               *)

\* the error parse_html gives for the language of a page it cannot resolve
LocaleError(page) ==
  IF ~page.lang.some THEN Err("Can't find the language in the HTML")
  ELSE ErrWith("Unknown locale {}", page.lang.val)

\* C11: a page with no lang attribute fails to parse with the error of the
\* missing language, a page whose lang is not in the table with the error of
\* the unknown locale naming it, whatever headers the page has; the call ends
\* there, failed with that error.
LocaleResolvedFirst ==
  \A c \in CallIds : \A i \in ParsedAt(c) :
    ~KnownLocale(log[c][i].page) =>
      /\ ParsedAs(c, i) = LocaleError(log[c][i].page)
      /\ LocaleError([lang |-> None]) # LocaleError(log[c][i].page)
           <=> log[c][i].page.lang.some
      /\ log[c][i].status = "error"
      /\ i = Len(log[c])
      /\ Failed(c) /\ result[c].val = LocaleError(log[c][i].page)

\* a call failed on a page of an unknown language that holds the target day
LocaleResolvedFirstWitness ==
  \E c \in CallIds : \E i \in ParsedAt(c) :
    LET page == log[c][i].page IN
      /\ page.lang = Some("xx")
      /\ page.days[1].header = HdrTarget /\ page.days[1].block.some
      /\ Failed(c)

-----------------------------------------------------------------------------
(* Calls running side by side, checked under SpecConcurrent.               *)

\* the sessions call c has created
SessionsOf(c) ==
  {log[c][i].session : i \in {j \in DOMAIN log[c] : log[c][j].op = "new_client"}}

\* every request of call c went out on a session call c created before
OwnSessions(c) ==
  /\ \A i \in DOMAIN log[c] :
       log[c][i].op \in {"GET", "POST"} =>
         \E j \in 1..(i - 1) :
           log[c][j].op = "new_client" /\ log[c][j].session = log[c][i].session
  /\ client[c].some => client[c].val \in SessionsOf(c)
  /\ login[c].some => login[c].val.client \in SessionsOf(c)
  /\ \A d \in CallIds \ {c} : SessionsOf(c) \cap SessionsOf(d) = {}

\* a step that is not a step of call c leaves everything call c holds as it is
OwnState ==
  \A c \in CallIds :
    log'[c] = log[c] =>
      /\ pc'[c] = pc[c] /\ day'[c] = day[c] /\ client'[c] = client[c]
      /\ html'[c] = html[c] /\ ret'[c] = ret[c] /\ newUrl'[c] = newUrl[c]
      /\ userId'[c] = userId[c] /\ login'[c] = login[c] /\ result'[c] = result[c]

\* C12: with the steps of several calls interleaved in any order, every request
\* of a call goes out on a session that call itself created, no session is
\* held by two calls, and a step of one call changes nothing another call
\* holds: the calls meet in the cache only.
SessionsNotShared ==
  /\ [](\A c \in CallIds : OwnSessions(c))
  /\ [][OwnState]_vars

\* both calls are under way, each having fetched a previous page on a session
\* of its own
SessionsNotSharedWitness ==
  \A c \in CallIds :
    /\ ~Returned(c)
    /\ ClientsBuilt(c) = 1
    /\ \E i \in DOMAIN log[c] :
         log[c][i].op = "GET" /\ log[c][i].req = "previous" /\ log[c][i].status = "ok"

-----------------------------------------------------------------------------
(* The end of the walk, checked under SpecLive.                            *)

\* the URLs of the pages call c has fetched
FetchedUrls(c) == {PageGets(c)[i].url : i \in DOMAIN PageGets(c)}

\* call c has fetched a page twice
Revisited(c) == Cardinality(FetchedUrls(c)) < Len(PageGets(c))

\* the chain of previous links has led call c back to a page it has fetched
OnCycle(c) ==
  \/ Revisited(c)
  \/ pc[c] = "fetch_previous" /\ newUrl[c].val \in FetchedUrls(c)

\* C13, as claimed: unless the previous links lead back to a page already
\* fetched, the call comes to Done or Failed, and it has fetched no page twice.
WalkEndsInDoneOrFailed ==
  /\ <>(\A c \in Sequential : Done(c) \/ Failed(c) \/ OnCycle(c))
  /\ [](\A c \in Sequential :
          Revisited(c) =>
            \E i \in DOMAIN PageGets(c) :
              PageGets(c)[i].page.val.previous = PrevLink(Some(PrevHref(1)))
                \/ PageGets(c)[i].page.val.previous = PrevLink(Some(PrevHref(2))))

\* C13 with the crash of init_client counted as an end: the call comes to
\* Done, to Failed or to the panic unless the previous links lead back to a page
\* already fetched.
WalkEnds ==
  <>(\A c \in Sequential : Done(c) \/ Failed(c) \/ OnCycle(c) \/ pc[c] = "panicked")

\* on a cycle of pages of later days the call goes on fetching: it has fetched
\* a page twice and is about to fetch again
WalkGoesRoundTheCycle ==
  \E c \in Sequential : Revisited(c) /\ pc[c] = "fetch_previous"

-----------------------------------------------------------------------------
(* The session of a call, checked under Spec.                              *)

\* the requests of call c, in order
Requests(c) == SelectSeq(log[c], LAMBDA e : e.op \in {"GET", "POST"})

\* how many entries of the log of call c are requests of the kind req
Count(c, req) ==
  Len(SelectSeq(log[c], LAMBDA e : e.op \in {"GET", "POST"} /\ e.req = req))

\* C14: a call logs in once at most, however many pages it walks: it builds
\* one client, gets the root page once and posts the login form once, and
\* every request of the call, each previous-page fetch included, goes out on
\* that one session.
LoginAtMostOnce ==
  \A c \in CallIds :
    /\ ClientsBuilt(c) <= 1
    /\ Count(c, "root") <= 1 /\ Count(c, "login") <= 1
    /\ \A i, j \in DOMAIN Requests(c) : Requests(c)[i].session = Requests(c)[j].session
    /\ client[c].some => \A i \in DOMAIN Requests(c) : Requests(c)[i].session = client[c].val

\* after a cache hit two previous pages were fetched on the session of the one
\* login of the call, made before the first of them
LoginAtMostOnceWitness ==
  \E c \in CallIds :
    /\ CacheHit(c)
    /\ PrevFetches(c) = 2
    /\ ClientsBuilt(c) = 1
    /\ Count(c, "login") = 1

\* the i-th entry of the log of call c is a request for a page of the feed
IsPageGet(c, i) == log[c][i].op = "GET" /\ log[c][i].req \in {"activity", "previous"}

\* entries j < k of the log of call c are a login carried through: the root
\* page was got and had a token, then the form was posted with that token on
\* the same session and the answer gave a user id
LoggedInAt(c, j, k) ==
  /\ j < k
  /\ log[c][j].op = "GET" /\ log[c][j].req = "root" /\ log[c][j].status = "ok"
  /\ ~TokenMissing(log[c][j].page.val)
  /\ log[c][k].op = "POST" /\ log[c][k].status = "ok"
  /\ log[c][k].url = LoginUrl(redmine_config)
  /\ log[c][k].session = log[c][j].session
  /\ log[c][k].form.authenticity_token = log[c][j].page.val.value.val
  /\ user_id_of(log[c][k].page.val).ok

\* C15: before any page of the feed is requested, first or previous, the call
\* has logged in: root page got, token taken, form posted, user id taken, in
\* that order and on the session of the request; so also when the first page
\* came from the cache.
FetchOnlyAfterLogin ==
  \A c \in CallIds : \A i \in DOMAIN log[c] :
    IsPageGet(c, i) =>
      \E j, k \in 1..(i - 1) :
        /\ LoggedInAt(c, j, k)
        /\ log[c][i].session = log[c][k].session
        /\ log[c][i].req = "activity" =>
             log[c][i].url = ActivityUrl(redmine_config, user_id_of(log[c][k].page.val).val)

\* the first page came from the cache and the previous page was fetched after
\* a login
FetchOnlyAfterLoginWitness ==
  \E c \in CallIds :
    /\ CacheHit(c)
    /\ Len(log[c]) >= 6
    /\ log[c][2].op = "parse_html"
    /\ LoggedInAt(c, 4, 5)
    /\ IsPageGet(c, 6) /\ log[c][6].status = "ok"

-----------------------------------------------------------------------------
(* The cache.                                                              *)

\* the positions of the log of call c at which the cache was written, or the
\* write was tried
CacheWrites(c) == {i \in DOMAIN log[c] : log[c][i].op = "write_to_cache"}

\* the cache is written at step i of call c right after the first page was
\* fetched, following a miss, and before any page is parsed
WrittenInPlace(c, i) ==
  /\ log[c][1] = [op |-> "get_cached_contents", status |-> "miss"]
  /\ i > 1
  /\ log[c][i - 1].op = "GET" /\ log[c][i - 1].req = "activity"
  /\ log[c][i - 1].status = "ok"
  /\ \A j \in 1..i : log[c][j].op # "parse_html" /\ ~(IsPageGet(c, j) /\ j # i - 1)
  /\ log[c][i].status = "ok" => cache = log[c][i - 1].page

\* a step changes the cache only by the write of a call, to the first page of
\* that call
CacheChangedByWrite ==
  cache' # cache =>
    \E c \in CallIds :
      /\ log'[c] = Append(log[c], [op |-> "write_to_cache", status |-> "ok"])
      /\ cache' = html[c]

\* C16: a call writes the cache once at most: after a miss, a login and the
\* fetch of the first page, with that page, before the page is parsed, and
\* whenever the first page was fetched; nothing else changes the cache: no
\* hit, no failed login or fetch, no fetch of a previous page.
CacheWrittenOnce ==
  /\ [](\A c \in CallIds :
          /\ Cardinality(CacheWrites(c)) <= 1
          /\ \A i \in CacheWrites(c) : WrittenInPlace(c, i)
          /\ \A i \in DOMAIN log[c] :
               (log[c][i].op = "GET" /\ log[c][i].req = "activity"
                  /\ log[c][i].status = "ok" /\ i < Len(log[c]))
                 => i + 1 \in CacheWrites(c))
  /\ [][CacheChangedByWrite]_vars

\* the first page was written to the cache, which still holds it after two
\* previous pages were fetched
CacheWrittenOnceWitness ==
  \E c \in CallIds :
    /\ CacheWrites(c) # {}
    /\ Len(PageGets(c)) = 3
    /\ PageGets(c)[3].page # cache
    /\ PageGets(c)[1].page = cache

-----------------------------------------------------------------------------
(* The user id.                                                            *)

\* the href has the form /users/<id>
WellFormedTarget(href) ==
  /\ Len(href) > Len(UsersPrefix)
  /\ SubSeq(href, 1, Len(UsersPrefix)) = UsersPrefix
  /\ \A i \in (Len(UsersPrefix) + 1)..Len(href) : href[i] # "/"

\* the page after login has an active-user link with a well-formed target
WellFormedUserPage(page) == page.link /\ page.href.some /\ WellFormedTarget(page.href.val)

\* C17, as claimed: when the page after login has no active-user link, a link
\* with no target or a target not of the form /users/<id>, the login fails:
\* the call ends there, failed, with no user id and no session; with a
\* well-formed target the user id is the <id>.
MalformedUserLinkFails ==
  \A c \in CallIds : \A i \in DOMAIN log[c] :
    (log[c][i].op = "POST" /\ log[c][i].status = "ok") =>
      IF WellFormedUserPage(log[c][i].page.val)
      THEN userId[c] = Some(Drop(log[c][i].page.val.href.val, Len(UsersPrefix)))
      ELSE /\ i = Len(log[c]) /\ Failed(c)
           /\ ~userId[c].some /\ ~client[c].some

\* C17 for pages whose link, if it has a target, has a well-formed one: no link
\* and no target fail the login, a well-formed target gives the <id>.
MissingUserLinkFails ==
  \A c \in CallIds : \A i \in DOMAIN log[c] :
    (log[c][i].op = "POST" /\ log[c][i].status = "ok") =>
      LET page == log[c][i].page.val IN
        /\ WellFormedUserPage(page) => userId[c] = Some(Drop(page.href.val, Len(UsersPrefix)))
        /\ (~page.link \/ ~page.href.some) =>
             /\ i = Len(log[c]) /\ Failed(c)
             /\ ~userId[c].some /\ ~client[c].some

-----------------------------------------------------------------------------
(* Headers and blocks out of step.                                         *)

\* the previous page the page points to, if any
PreviousOf(page) ==
  IF HasPreviousHref(page)
  THEN Some(redmine_config.server_url \o page.previous.href.val)
  ELSE None

\* the headers of the page parsed at step i of call c that are left without a
\* block when the blocks run out, and are of the target day or before it, or
\* no date at all
LeftOver(c, i) ==
  LET page == log[c][i].page IN
    {m \in (NumPairs(page) + 1)..Len(page.days) : ~HeaderLater(page, m, day[c].val)}

\* C18: when the headers or the blocks of a page run out before a pair of the
\* target day or of an earlier day is met, the page parses, with no error and
\* no Done, to ReachedEndOfPage of its previous link, or of None; so also
\* when a header left without a block is of the target day or before it.
OutOfStepIsNoDecision ==
  \A c \in CallIds : \A i \in ParsedAt(c) :
    AllPairsLater(c, i) =>
      /\ ParsedAs(c, i).ok
      /\ ParsedAs(c, i).val.kind # "Done"
      /\ ParsedAs(c, i).val = ReachedEndOfPage(PreviousOf(log[c][i].page))
      /\ log[c][i].status = "ok"
      /\ Returned(c) /\ i = Len(log[c]) => result[c].val = Ok(<<>>)

\* a page whose header of the target day is left without a block was parsed,
\* and the call went on to the previous page
OutOfStepIsNoDecisionWitness ==
  \E c \in CallIds : \E i \in ParsedAt(c) :
    /\ AllPairsLater(c, i)
    /\ \E m \in LeftOver(c, i) : HeaderEqual(log[c][i].page, m, day[c].val)
    /\ i < Len(log[c])
    /\ HasPreviousHref(log[c][i].page)

-----------------------------------------------------------------------------
(* The events of a day block, checked under SpecParse.                     *)

EventsCalled == fnArgs.some /\ fnArgs.val.fn = "parse_events" /\ fnResult.some

NoDescription == Err("Redmine event: no description?")
NoLinkError == Err("Redmine event: no link?")

\* events are the first t events of the block, each of the i-th time, the i-th
\* description and the i-th link
EventsOfBlock(events, block, t) ==
  /\ Len(events) = t
  /\ \A i \in 1..t :
       /\ Ok(events[i].time) = parse_time(block.times[i])
       /\ events[i].title = block.links[i].text
       /\ events[i].short_title = block.links[i].text
       /\ IsSubText(redmine_config.server_url \o block.links[i].href.val,
                    events[i].body.text)
       /\ IsSubText(markup_escape_text(block.descriptions[i]), events[i].body.text)

\* C19, as claimed: a block of t times, d descriptions and l links gives t
\* events when d >= t and l >= t, the error of the missing description when
\* d < t, and the error of the missing link when l < t <= d.
EventsPerTimeWhicheverIsShort ==
  EventsCalled =>
    LET block == fnArgs.val.contents_elt
        t == Len(block.times)
        d == Len(block.descriptions)
        l == Len(block.links)
    IN /\ (d >= t /\ l >= t) =>
            fnResult.val.ok /\ EventsOfBlock(fnResult.val.val, block, t)
       /\ d < t => fnResult.val = NoDescription
       /\ (l < t /\ t <= d) => fnResult.val = NoLinkError

\* C19, amended: a block of t times, d descriptions and l links gives t events,
\* the i-th of the i-th time, description and link, when d >= t and l >= t;
\* else the error of the element that is missing first: the description when
\* d < t and d <= l, the link when l < t and l < d.
EventsPerTime ==
  EventsCalled =>
    LET block == fnArgs.val.contents_elt
        t == Len(block.times)
        d == Len(block.descriptions)
        l == Len(block.links)
    IN /\ (d >= t /\ l >= t) =>
            fnResult.val.ok /\ EventsOfBlock(fnResult.val.val, block, t)
       /\ (d < t /\ d <= l) => fnResult.val = NoDescription
       /\ (l < t /\ l < d) => fnResult.val = NoLinkError

\* two events came of a block of two times, three descriptions and three links
EventsPerTimeWitness ==
  /\ EventsCalled
  /\ Len(fnArgs.val.contents_elt.times) = 2
  /\ Len(fnArgs.val.contents_elt.descriptions) = 3
  /\ Len(fnArgs.val.contents_elt.links) = 3
  /\ fnResult.val.ok /\ Len(fnResult.val.val) = 2

-----------------------------------------------------------------------------
(* Each header with its own block, checked under Spec.                     *)

\* the headers of the target day on the page parsed at step i of call c that
\* come after headers of later days only
TargetHeaders(c, i) ==
  LET page == log[c][i].page IN
    IF ~KnownLocale(page) THEN {}
    ELSE {j \in DOMAIN page.days :
            /\ HeaderEqual(page, j, day[c].val)
            /\ \A m \in 1..(j - 1) : HeaderLater(page, m, day[c].val)}

\* the page parsed at step i of call c gave the events of the block that
\* follows its j-th header
FromOwnBlock(c, i, j) ==
  LET own == log[c][i].page.days[j].block IN
    /\ own.some
    /\ ParsedAs(c, i) = MapDone(parse_events(redmine_config, own.val))

\* C20, as claimed: the events a page gives for the target day are those of
\* the block that follows the header of the target day; when that header has a
\* block the page gives its events, whether the headers before it have blocks
\* or not, and a page gives events from no other block.
EventsFromOwnBlock ==
  \A c \in CallIds : \A i \in ParsedAt(c) :
    /\ \A j \in TargetHeaders(c, i) :
         log[c][i].page.days[j].block.some => FromOwnBlock(c, i, j)
    /\ (ParsedAs(c, i).ok /\ ParsedAs(c, i).val.kind = "Done"
          /\ ParsedAs(c, i).val.events # <<>>)
         => \E j \in TargetHeaders(c, i) : FromOwnBlock(c, i, j)

\* C20 on the pages each of whose headers has a block.
EventsFromOwnBlockWhenAllHaveOne ==
  \A c \in CallIds : \A i \in ParsedAt(c) :
    OwnBlocks(log[c][i].page) =>
      /\ \A j \in TargetHeaders(c, i) : FromOwnBlock(c, i, j)
      /\ (ParsedAs(c, i).ok /\ ParsedAs(c, i).val.kind = "Done"
            /\ ParsedAs(c, i).val.events # <<>>)
           => \E j \in TargetHeaders(c, i) : FromOwnBlock(c, i, j)

\* the events of an earlier day were returned for the target day, whose header
\* has no block
EventsFromOtherBlock ==
  \E c \in CallIds : \E i \in ParsedAt(c) :
    LET page == log[c][i].page IN
      /\ Len(page.days) = 2
      /\ page.days[1] = Day(HdrTarget, None)
      /\ HeaderEarlier(page, 2, day[c].val)
      /\ Done(c) /\ Len(result[c].val.val) = MaxEvents

-----------------------------------------------------------------------------
(* A cache write that fails, checked under Spec.                           *)

\* the cache write of call c failed at step i
WriteFailed(c, i) == log[c][i] = [op |-> "write_to_cache", status |-> "error"]

\* C21: when, after a miss, a login and the fetch of the first page, the write
\* of the page to the cache fails, the call fails with the error of the
\* cache: the page is not parsed, no event is returned, no previous page is
\* fetched.
FailedCacheWriteFailsTheCall ==
  \A c \in CallIds : \A i \in DOMAIN log[c] :
    WriteFailed(c, i) =>
      /\ i = Len(log[c])
      /\ log[c][i - 1].op = "GET" /\ log[c][i - 1].req = "activity"
      /\ log[c][i - 1].status = "ok"
      /\ Failed(c) /\ result[c].val = Err("cache write failed")
      /\ ParsedAt(c) = {}
      /\ PrevFetches(c) = 0
      /\ ~client[c].some

\* the write of a fetched page that holds events of the target day failed, and
\* the call failed
FailedCacheWriteFailsTheCallWitness ==
  \E c \in CallIds :
    /\ Len(log[c]) >= 2
    /\ WriteFailed(c, Len(log[c]))
    /\ html[c] = Some(Page(Some("en"), <<Day(HdrTarget, Some(GoodBlock(MaxEvents)))>>, NoLink))
    /\ Failed(c)

-----------------------------------------------------------------------------
(* The title bar, checked under SpecTitleBar.                              *)

Pending(m) == \E i \in DOMAIN stream : stream[i].msg = m

\* the step is update handling message m
Handled(m) == Handling(m) /\ stream' = Tail(stream)

NumPending(s, m) == Cardinality({i \in DOMAIN s : s[i].msg = m})

\* C22: ScreenChanged and NewEventSourceClick are handled only when
\* main_window_stack is set, so that their unwrap of main_window_stack never
\* fails: a handler is connected to a stack only while MainWindowStackReady is
\* handled, ScreenChanged is emitted only by a stack with a handler, and the
\* New button, hidden at first, is visible exactly when
\* displaying_event_sources is set and becomes visible only while a
\* ScreenChanged is handled that finds the visible child "event-sources".
StackSetWhenUnwrapped ==
  /\ [](/\ panic # Some("main_window_stack")
        /\ (Pending("ScreenChanged") \/ Pending("NewEventSourceClick"))
             => self.model.main_window_stack.some
        /\ self.new_event_source_btn.visible = self.model.displaying_event_sources)
  /\ [][/\ (\E s \in DOMAIN stacks : stacks'[s].handlers # stacks[s].handlers)
             => Handled("MainWindowStackReady")
        /\ NumPending(stream', "ScreenChanged") > NumPending(stream, "ScreenChanged")
             => \E s \in DOMAIN stacks :
                  /\ stacks[s].handlers > 0
                  /\ stacks'[s].visible_child_name # stacks[s].visible_child_name
        /\ (~self.new_event_source_btn.visible /\ self'.new_event_source_btn.visible)
             => /\ Handled("ScreenChanged")
                /\ stacks[self.model.main_window_stack.val].visible_child_name
                     = Some("event-sources")]_vars

\* both messages have been handled: the button is visible and a dialog has
\* been run, without a panic
StackSetWhenUnwrappedWitness ==
  /\ panic = None
  /\ dialog # "none"
  /\ self.new_event_source_btn.visible
  /\ self.model.main_window_stack.some

=============================================================================
